---------------------------- MODULE Spec2Model ----------------------------
(***************************************************************************)
(* Model of the type-inference visualizer (src/unnamed/part_000, the v3.0  *)
(* component with lists, the trace and the step controls).                 *)
(*                                                                         *)
(* JavaScript objects live in a heap: a Type object is a reference (a      *)
(* positive index into heap), so object identity (===) is reference        *)
(* equality and the writes of prune and unify to TypeVar.instance are      *)
(* heap updates.  Negative references are the members of Object.prototype, *)
(* which a lookup env[name] on a plain object literal can return.          *)
(* Strings are built with \o exactly as the template literals build them;  *)
(* the non-ASCII letters of the messages are written in ASCII.             *)
(***************************************************************************)
EXTENDS Integers, Sequences, FiniteSets, TLC

VARIABLES
    code,         \* useState code: the source text, a sequence of characters
    steps,        \* useState steps: the trace events handed to the view
    currentStep,  \* useState currentStep
    error,        \* useState error: Null or <<message>>
    finalType,    \* useState finalType: Null or <<type string>>
    astRoot,      \* useState astRoot: Null or <<tree>>
    typeVars,     \* module-level registry: references of the TypeVars
    heap,         \* the Type objects
    tokens,       \* the token sequence given to a Parser
    result,       \* what the last call of a function under test returned or threw;
                  \* in src/App.js, useState result: Null or <<type string>>
    pc,           \* which call of a function under test comes next
    args,         \* the arguments of the last call of a function under test
    logs,         \* src/App.js, useState logs: the log entries handed to the view
    typeVarCounter \* src/App.js, the module-level counter of newTypeVar

vars == <<code, steps, currentStep, error, finalType, astRoot, typeVars, heap, tokens, result, pc,
          args, logs, typeVarCounter>>

\* null and a set value of a nullable field
Null == <<>>
Some(x) == <<x>>

\* `const x = v; F(x)`: v is evaluated once and F applied to its value
Let(v, F(_)) == CHOOSE r \in {F(x) : x \in {v}} : TRUE
\* sequencing in the presence of exceptions: the continuation K runs on the
\* state X a call left unless the call threw, and then X propagates
Then(X, K(_)) == Let(X, LAMBDA Y : IF Y.thrown # <<>> THEN Y ELSE K(Y))

\* bounds of the model
MaxStack == 12
MaxHeap == 3
MaxChars == 3
MaxTokens == 3
MaxOps == 2
MaxTypes == 4

-----------------------------------------------------------------------------
(* 1. SISTEMA DE TIPOS *)

TypeInt == [kind |-> "Int", name |-> "Int", instance |-> 0, param |-> 0, ret |-> 0, elemType |-> 0]
TypeBool == [kind |-> "Bool", name |-> "Bool", instance |-> 0, param |-> 0, ret |-> 0, elemType |-> 0]
TypeVar(n) == [kind |-> "Var", name |-> n, instance |-> 0, param |-> 0, ret |-> 0, elemType |-> 0]
TypeArrow(p, r) == [kind |-> "Arrow", name |-> "Arrow", instance |-> 0, param |-> p, ret |-> r, elemType |-> 0]
TypeList(e) == [kind |-> "List", name |-> "List", instance |-> 0, param |-> 0, ret |-> 0, elemType |-> e]

\* new X(...): the object is appended to the heap, its reference is the value

\* members of Object.prototype that an identifier can name
ObjectPrototype == {"toString", "constructor", "valueOf", "hasOwnProperty", "__proto__"}
NativeRef(n) ==
    CASE n = "toString" -> -1
      [] n = "constructor" -> -2
      [] n = "valueOf" -> -3
      [] n = "hasOwnProperty" -> -4
      [] n = "__proto__" -> -5
\* String(x) of such a member
NativeString(r) ==
    CASE r = -1 -> "function toString() { [native code] }"
      [] r = -2 -> "function Object() { [native code] }"
      [] r = -3 -> "function valueOf() { [native code] }"
      [] r = -4 -> "function hasOwnProperty() { [native code] }"
      [] r = -5 -> "[object Object]"

\* x instanceof K
InstanceOf(h, r, k) == r > 0 /\ h[r].kind = k

\* what a call stack deeper than the engine allows produces
RangeError == "RangeError: Maximum call stack size exceeded"

\* TypeVar.toString returning the name of a bound variable
RECURSIVE toStringByName(_, _, _)
toStringByName(h, r, d) ==
    IF d = 0 THEN RangeError
    ELSE IF r < 0 THEN NativeString(r)
    ELSE IF h[r].kind = "Arrow" THEN
        LET p == IF InstanceOf(h, h[r].param, "Arrow")
                 THEN "(" \o toStringByName(h, h[r].param, d - 1) \o ")"
                 ELSE toStringByName(h, h[r].param, d - 1)
        IN  p \o " -> " \o toStringByName(h, h[r].ret, d - 1)
    ELSE IF h[r].kind = "List" THEN "[" \o toStringByName(h, h[r].elemType, d - 1) \o "]"
    ELSE h[r].name

RECURSIVE toStringD(_, _, _)
toStringD(h, r, d) ==
    IF d = 0 THEN RangeError
    ELSE IF r < 0 THEN NativeString(r)
    ELSE IF h[r].kind = "Var" THEN
        IF h[r].instance # 0 THEN toStringD(h, h[r].instance, d - 1) ELSE h[r].name
    ELSE IF h[r].kind = "Arrow" THEN
        LET p == IF InstanceOf(h, h[r].param, "Arrow")
                 THEN "(" \o toStringD(h, h[r].param, d - 1) \o ")"
                 ELSE toStringD(h, h[r].param, d - 1)
        IN  p \o " -> " \o toStringD(h, h[r].ret, d - 1)
    ELSE IF h[r].kind = "List" THEN "[" \o toStringD(h, h[r].elemType, d - 1) \o "]"
    ELSE h[r].name

toString(h, r) == toStringD(h, r, MaxStack)

-----------------------------------------------------------------------------
(* 3. PARSER *)

Lower == {"a", "b", "c", "d", "e", "f", "g", "h", "i", "j", "k", "l", "m",
          "n", "o", "p", "q", "r", "s", "t", "u", "v", "w", "x", "y", "z"}
Upper == {"A", "B", "C", "D", "E", "F", "G", "H", "I", "J", "K", "L", "M",
          "N", "O", "P", "Q", "R", "S", "T", "U", "V", "W", "X", "Y", "Z"}
Digit == {"0", "1", "2", "3", "4", "5", "6", "7", "8", "9"}
IsSpace(c) == c \in {" ", "\t", "\n"}
IsIdStart(c) == c \in Lower \cup Upper \cup {"_"}
IsIdChar(c) == IsIdStart(c) \/ c \in Digit
DigitVal(c) ==
    CASE c = "0" -> 0 [] c = "1" -> 1 [] c = "2" -> 2 [] c = "3" -> 3 [] c = "4" -> 4
      [] c = "5" -> 5 [] c = "6" -> 6 [] c = "7" -> 7 [] c = "8" -> 8 [] c = "9" -> 9

\* the characters of input from index i on start with the characters of w
StartsWith(input, i, w) ==
    /\ i + Len(w) - 1 <= Len(input)
    /\ \A k \in 1..Len(w) : input[i + k - 1] = w[k]

\* end (exclusive) of the maximal run from i of characters satisfying the class
RECURSIVE RunEnd(_, _, _)
RunEnd(input, i, class) ==
    IF i <= Len(input) /\ ( \/ class = "s" /\ IsSpace(input[i])
                            \/ class = "d" /\ input[i] \in Digit
                            \/ class = "w" /\ IsIdChar(input[i]) )
    THEN RunEnd(input, i + 1, class) ELSE i

\* the string made of the characters input[i..j-1]
RECURSIVE Text(_, _, _)
Text(input, i, j) == IF i >= j THEN "" ELSE input[i] \o Text(input, i + 1, j)

\* parseInt of a digit run
RECURSIVE parseInt(_, _, _, _)
parseInt(input, i, j, acc) ==
    IF i >= j THEN acc ELSE parseInt(input, i + 1, j, 10 * acc + DigitVal(input[i]))

\* the alternatives of the regular expression, in the order it tries them
BoolWords == << <<"t","r","u","e">>, <<"f","a","l","s","e">> >>
KeyWords == << <<"l","e","t">>, <<"i","n">>, <<"i","f">>, <<"t","h","e","n">>,
               <<"e","l","s","e">>, <<"f","u","n">> >>
ArrowWords == << <<"-",">">> >>
OpWords == << <<"=","=">>, <<"!","=">>, <<"<","=">>, <<">","=">>, <<"<">>, <<">">>, <<"+">>,
              <<"-">>, <<"*">>, <<"/">>, <<":",":">>, <<"=">> >>
PuncWords == << <<"[">>, <<"]">>, <<"(">>, <<")">>, <<",">> >>

\* index of the first word of ws that input has at i, or 0
FirstWord(input, i, ws) ==
    LET hits == {k \in 1..Len(ws) : StartsWith(input, i, ws[k])}
    IN  IF hits = {} THEN 0 ELSE CHOOSE k \in hits : \A m \in hits : k <= m

\* One regex.exec from lastIndex i: the token pushed (Null for whitespace or no
\* match) and the new lastIndex; a character no alternative matches is passed over.
NextMatch(input, i) ==
    LET b == FirstWord(input, i, BoolWords)
        k == FirstWord(input, i, KeyWords)
        a == FirstWord(input, i, ArrowWords)
        o == FirstWord(input, i, OpWords)
        u == FirstWord(input, i, PuncWords)
    IN  IF IsSpace(input[i]) THEN [tok |-> Null, next |-> RunEnd(input, i, "s")]
        ELSE IF input[i] \in Digit THEN
            LET j == RunEnd(input, i, "d")
            IN  [tok |-> Some([type |-> "NUM", val |-> parseInt(input, i, j, 0)]), next |-> j]
        ELSE IF b # 0 THEN
            [tok |-> Some([type |-> "BOOL", val |-> (b = 1)]), next |-> i + Len(BoolWords[b])]
        ELSE IF k # 0 THEN
            [tok |-> Some([type |-> "KW", val |-> Text(KeyWords[k], 1, Len(KeyWords[k]) + 1)]),
             next |-> i + Len(KeyWords[k])]
        ELSE IF a # 0 THEN [tok |-> Some([type |-> "ARROW", val |-> "->"]), next |-> i + 2]
        ELSE IF o # 0 THEN
            [tok |-> Some([type |-> "OP", val |-> Text(OpWords[o], 1, Len(OpWords[o]) + 1)]),
             next |-> i + Len(OpWords[o])]
        ELSE IF IsIdStart(input[i]) THEN
            LET j == RunEnd(input, i, "w")
            IN  [tok |-> Some([type |-> "ID", val |-> Text(input, i, j)]), next |-> j]
        ELSE IF u # 0 THEN [tok |-> Some([type |-> "PUNC", val |-> input[i]]), next |-> i + 1]
        ELSE [tok |-> Null, next |-> i + 1]

RECURSIVE tokenizeFrom(_, _)
tokenizeFrom(input, i) ==
    IF i > Len(input) THEN <<>>
    ELSE Let(NextMatch(input, i), LAMBDA m : m.tok \o tokenizeFrom(input, m.next))

tokenize(input) == tokenizeFrom(input, 1)

\* `${t.val}` of a token, and of undefined
ValString(t) ==
    IF t = Null THEN "undefined"
    ELSE IF t[1].type = "NUM" THEN ToString(t[1].val)
    ELSE IF t[1].type = "BOOL" THEN (IF t[1].val THEN "true" ELSE "false")
    ELSE t[1].val

(* 2. AST: each constructor draws the node's uid; the model numbers the nodes *)
(* in construction order instead of drawing Math.random.                      *)
EInt(u, v) == [tag |-> "EInt", uid |-> u, val |-> v]
EBool(u, v) == [tag |-> "EBool", uid |-> u, val |-> v]
EVar(u, n) == [tag |-> "EVar", uid |-> u, name |-> n]
EBinOp(u, op, l, r) == [tag |-> "EBinOp", uid |-> u, op |-> op, left |-> l, right |-> r]
EIf(u, c, t, e) == [tag |-> "EIf", uid |-> u, cond |-> c, thenBr |-> t, elseBr |-> e]
EFun(u, p, b) == [tag |-> "EFun", uid |-> u, param |-> p, body |-> b]
ELet(u, n, v, b) == [tag |-> "ELet", uid |-> u, name |-> n, val |-> v, body |-> b]
EApp(u, f, a) == [tag |-> "EApp", uid |-> u, func |-> f, arg |-> a]
EList(u, h, t) == [tag |-> "EList", uid |-> u, head |-> h, tail |-> t]
EEmptyList(u) == [tag |-> "EEmptyList", uid |-> u]

\* children() of an AST node
children(e) ==
    CASE e.tag = "EBinOp" -> <<e.left, e.right>>
      [] e.tag = "EIf" -> <<e.cond, e.thenBr, e.elseBr>>
      [] e.tag = "EFun" -> <<e.body>>
      [] e.tag = "ELet" -> <<e.val, e.body>>
      [] e.tag = "EApp" -> <<e.func, e.arg>>
      [] e.tag = "EList" -> <<e.head, e.tail>>
      [] OTHER -> <<>>

\* Parser state: pos, the number of nodes built, the exception in flight and
\* the value returned by the last parse method.
NewParser == [pos |-> 0, uid |-> 0, thrown |-> Null, val |-> Null]
peek(toks, P) == IF P.pos < Len(toks) THEN Some(toks[P.pos + 1]) ELSE Null
consume(P) == [P EXCEPT !.pos = @ + 1]
\* match(type, val): val = "" stands for an omitted argument
Matches(toks, P, type, val) ==
    LET t == peek(toks, P)
    IN  t # Null /\ t[1].type = type /\ (val = "" \/ t[1].val = val)
ParseThrow(P, name, msg) == [P EXCEPT !.thrown = Some([name |-> name, message |-> msg])]
expect(toks, P, type, val) ==
    IF Matches(toks, P, type, val) THEN consume(P)
    ELSE ParseThrow(P, "Error", "Erro Sintatico: Esperado " \o (IF val # "" THEN val ELSE type)
                                    \o ", achou " \o ValString(peek(toks, P)))
\* a node built: the parser returns it
Built(P, node) == [P EXCEPT !.uid = @ + 1, !.val = Some(node)]
\* reading .type of the token consume() returned when there was none
UndefinedRead == "Cannot read properties of undefined (reading 'type')"

IsAtomStart(t) ==
    t # Null /\ ( \/ t[1].type \in {"NUM", "BOOL", "ID"}
                  \/ (t[1].type = "PUNC" /\ t[1].val = "(")
                  \/ (t[1].type = "PUNC" /\ t[1].val = "[") )

RECURSIVE parseExpression(_, _)
RECURSIVE parseBinary(_, _)
RECURSIVE parseApp(_, _)
RECURSIVE parseAppLoop(_, _)
RECURSIVE parseAtom(_, _)

\* the list literal after its '[' was matched, P being the parser before it
parseListRest(toks, P) ==
    IF Matches(toks, consume(P), "PUNC", "]")
    THEN Built(consume(consume(P)), EEmptyList(P.uid))
    ELSE Then(parseExpression(toks, consume(P)), LAMBDA H :
         \* let tail = new EEmptyList()
         LET tail == EEmptyList(H.uid)
             H1 == [H EXCEPT !.uid = @ + 1]
         IN  IF Matches(toks, H1, "PUNC", ",")
             THEN Then(parseExpression(toks, consume(H1)), LAMBDA S2 :
                  Then(expect(toks, [S2 EXCEPT !.uid = @ + 2], "PUNC", "]"), LAMBDA E :
                  Built(E, EList(E.uid, H.val[1],
                                 EList(S2.uid + 1, S2.val[1], EEmptyList(S2.uid))))))
             ELSE Then(expect(toks, H1, "PUNC", "]"), LAMBDA E :
                  Built(E, EList(E.uid, H.val[1], tail))))

parseAtom(toks, P) ==
    LET t == peek(toks, P)
    IN  IF t = Null THEN ParseThrow(P, "Error", "Fim inesperado")
        ELSE IF t[1].type = "NUM" THEN Built(consume(P), EInt(P.uid, t[1].val))
        ELSE IF t[1].type = "BOOL" THEN Built(consume(P), EBool(P.uid, t[1].val))
        ELSE IF t[1].type = "ID" THEN Built(consume(P), EVar(P.uid, t[1].val))
        ELSE IF Matches(toks, P, "PUNC", "[") THEN parseListRest(toks, P)
        ELSE IF Matches(toks, P, "PUNC", "(") THEN
            Then(parseExpression(toks, consume(P)), LAMBDA X : expect(toks, X, "PUNC", ")"))
        ELSE ParseThrow(P, "Error", "Token inesperado: " \o ValString(t))

\* the while (true) of parseApp, P.val being expr
parseAppLoop(toks, P) ==
    IF IsAtomStart(peek(toks, P))
    THEN Then(parseAtom(toks, P), LAMBDA A :
         parseAppLoop(toks, Built(A, EApp(A.uid, P.val[1], A.val[1]))))
    ELSE P

parseApp(toks, P) == Then(parseAtom(toks, P), LAMBDA A : parseAppLoop(toks, A))

\* a parseBinary whose right operand is a single application
parseBinaryOnce(toks, P) ==
    Then(parseApp(toks, P), LAMBDA L :
    LET t == peek(toks, L)
    IN  IF t # Null /\ t[1].type = "OP" /\ t[1].val # "="
        THEN Then(parseApp(toks, consume(L)), LAMBDA R :
             Built(R, EBinOp(R.uid, t[1].val, L.val[1], R.val[1])))
        ELSE L)

parseBinary(toks, P) ==
    Then(parseApp(toks, P), LAMBDA L :
    LET t == peek(toks, L)
    IN  IF t # Null /\ t[1].type = "OP" /\ t[1].val # "="
        THEN Then(parseBinary(toks, consume(L)), LAMBDA R :
             Built(R, EBinOp(R.uid, t[1].val, L.val[1], R.val[1])))
        ELSE L)

parseLet(toks, P) ==
    LET id == peek(toks, consume(P))
        P2 == consume(consume(P))
    IN  IF id = Null THEN ParseThrow(P2, "TypeError", UndefinedRead)
        ELSE IF id[1].type # "ID" THEN ParseThrow(P2, "Error", "Esperado ID apos let")
        ELSE Then(expect(toks, P2, "OP", "="), LAMBDA E1 :
             Then(parseExpression(toks, E1), LAMBDA V :
             Then(expect(toks, V, "KW", "in"), LAMBDA E2 :
             Then(parseExpression(toks, E2), LAMBDA B :
             Built(B, ELet(B.uid, id[1].val, V.val[1], B.val[1]))))))

parseFun(toks, P) ==
    LET p == peek(toks, consume(P))
        P2 == consume(consume(P))
    IN  IF p = Null THEN ParseThrow(P2, "TypeError", UndefinedRead)
        ELSE IF p[1].type # "ID" THEN ParseThrow(P2, "Error", "Esperado param apos fun")
        ELSE Then(expect(toks, P2, "ARROW", ""), LAMBDA E1 :
             Then(parseExpression(toks, E1), LAMBDA B :
             Built(B, EFun(B.uid, p[1].val, B.val[1]))))

parseIf(toks, P) ==
    Then(parseExpression(toks, consume(P)), LAMBDA C :
    Then(expect(toks, C, "KW", "then"), LAMBDA E1 :
    Then(parseExpression(toks, E1), LAMBDA T :
    Then(expect(toks, T, "KW", "else"), LAMBDA E2 :
    Then(parseExpression(toks, E2), LAMBDA F :
    Built(F, EIf(F.uid, C.val[1], T.val[1], F.val[1])))))))

parseExpression(toks, P) ==
    IF Matches(toks, P, "KW", "let") THEN parseLet(toks, P)
    ELSE IF Matches(toks, P, "KW", "fun") THEN parseFun(toks, P)
    ELSE IF Matches(toks, P, "KW", "if") THEN parseIf(toks, P)
    ELSE parseBinary(toks, P)

-----------------------------------------------------------------------------
(* 4. MOTOR *)

\* a reset that keeps the registry
resetTypeVarsKeeps(tv) == tv

resetTypeVars(tv) == <<>>

\* the registry and the heap after newTypeVar(), and the new variable
newTypeVar(h, tv) ==
    [heap |-> Append(h, TypeVar("T" \o ToString(Len(tv)))),
     typeVars |-> Append(tv, Len(h) + 1),
     val |-> Len(h) + 1]

\* a prune that returns its argument without following instance
pruneNoFollow(h, t) == [heap |-> h, val |-> t]

\* a prune that follows one instance link only
pruneOneLink(h, t) ==
    IF InstanceOf(h, t, "Var") /\ h[t].instance # 0
    THEN [heap |-> h, val |-> h[t].instance]
    ELSE [heap |-> h, val |-> t]

RECURSIVE prune(_, _)
prune(h, t) ==
    IF InstanceOf(h, t, "Var") /\ h[t].instance # 0
    THEN Let(prune(h, h[t].instance), LAMBDA r :
         [heap |-> [r.heap EXCEPT ![t].instance = r.val], val |-> r.val])
    ELSE [heap |-> h, val |-> t]

\* an occurs check that looks into the parameter of an arrow only
RECURSIVE occursInParamOnly(_, _, _)
occursInParamOnly(h, v, t0) ==
    Let(prune(h, t0), LAMBDA p :
    IF v = p.val THEN [heap |-> p.heap, val |-> TRUE]
    ELSE IF InstanceOf(p.heap, p.val, "Arrow")
    THEN occursInParamOnly(p.heap, v, p.heap[p.val].param)
    ELSE [heap |-> p.heap, val |-> FALSE])

RECURSIVE occursIn(_, _, _)
occursIn(h, v, t0) ==
    Let(prune(h, t0), LAMBDA p :
    LET t == p.val
    IN  IF v = t THEN [heap |-> p.heap, val |-> TRUE]
        ELSE IF InstanceOf(p.heap, t, "Arrow") THEN
            Let(occursIn(p.heap, v, p.heap[t].param), LAMBDA l :
            IF l.val THEN l ELSE occursIn(l.heap, v, l.heap[t].ret))
        ELSE IF InstanceOf(p.heap, t, "List") THEN occursIn(p.heap, v, p.heap[t].elemType)
        ELSE [heap |-> p.heap, val |-> FALSE])

\* typeVars.map(...) from index i on
RECURSIVE snapshotFrom(_, _, _)
snapshotFrom(h, tv, i) ==
    IF i > Len(tv) THEN [heap |-> h, val |-> <<>>]
    ELSE Let(IF h[tv[i]].instance # 0 THEN prune(h, tv[i]) ELSE [heap |-> h, val |-> 0], LAMBDA p :
         Let(snapshotFrom(p.heap, tv, i + 1), LAMBDA rest :
         [heap |-> rest.heap,
          val |-> <<[name |-> h[tv[i]].name,
                     val |-> IF h[tv[i]].instance # 0 THEN toString(p.heap, p.val) ELSE "?"]>>
                  \o rest.val]))

snapshotTypes(h, tv) == snapshotFrom(h, tv, 1)

\* The interpreter state threaded through unify and analyze: the heap, the
\* registry, the events pushed by the trace callback, the exception in flight
\* (Null or <<[name, message]>>) and the value returned.
\* trace(msg, type, memory, nodeId) of runAnalysis: recordedSteps.push(...)
trace(S, msg, type, memory, nodeId) ==
    [S EXCEPT !.recordedSteps = Append(@, [msg |-> msg, type |-> type, memory |-> memory, nodeId |-> nodeId])]

\* throw new Error(msg)
Throw(S, msg) == [S EXCEPT !.thrown = Some([name |-> "Error", message |-> msg])]

\* a bind that takes the snapshot before it writes the instance
BindSnapshotFirst(S, h, a, b, ctx, nodeId) ==
    Let(snapshotTypes(h, S.typeVars), LAMBDA snap :
    Let([snap.heap EXCEPT ![a].instance = b], LAMBDA h2 :
    trace([S EXCEPT !.heap = h2],
          "UNIFICAR: " \o h2[a].name \o " <- " \o toString(h2, b) \o " (" \o ctx \o ")",
          "success", snap.val, nodeId)))

\* t1.instance = t2 and the success event
Bind(S, h, a, b, ctx, nodeId) ==
    Let([h EXCEPT ![a].instance = b], LAMBDA h2 :
    Let(snapshotTypes(h2, S.typeVars), LAMBDA snap :
    trace([S EXCEPT !.heap = snap.heap],
          "UNIFICAR: " \o h2[a].name \o " <- " \o toString(h2, b) \o " (" \o ctx \o ")",
          "success", snap.val, nodeId)))

\* a unify of two arrows that undoes the bindings and events of the parameters
\* when the returns do not unify
RECURSIVE unifyAtomic(_, _, _, _, _)
unifyAtomic(S, t01, t02, ctx, nodeId) ==
    Let(prune(S.heap, t01), LAMBDA p1 :
    Let(prune(p1.heap, t02), LAMBDA p2 :
    LET h == p2.heap
        t1 == p1.val
        t2 == p2.val
    IN  IF t1 = t2 THEN [S EXCEPT !.heap = h]
        ELSE IF InstanceOf(h, t1, "Int") /\ InstanceOf(h, t2, "Int") THEN [S EXCEPT !.heap = h]
        ELSE IF InstanceOf(h, t1, "Bool") /\ InstanceOf(h, t2, "Bool") THEN [S EXCEPT !.heap = h]
        ELSE IF InstanceOf(h, t1, "Var") THEN
            Let(occursIn(h, t1, t2), LAMBDA oc :
            IF oc.val
            THEN Throw([S EXCEPT !.heap = oc.heap],
                       "Occurs Check: Ciclo infinito (" \o toString(oc.heap, t1)
                           \o " em " \o toString(oc.heap, t2) \o ")")
            ELSE Bind(S, oc.heap, t1, t2, ctx, nodeId))
        ELSE IF InstanceOf(h, t2, "Var") THEN unifyAtomic([S EXCEPT !.heap = h], t2, t1, ctx, nodeId)
        ELSE IF InstanceOf(h, t1, "Arrow") /\ InstanceOf(h, t2, "Arrow") THEN
            Then(unifyAtomic([S EXCEPT !.heap = h], h[t1].param, h[t2].param, "Param Funcao", nodeId),
                 LAMBDA S1 :
                 Let(unifyAtomic(S1, S1.heap[t1].ret, S1.heap[t2].ret, "Retorno Funcao", nodeId),
                     LAMBDA S2 :
                     IF S2.thrown # Null THEN [S EXCEPT !.heap = h, !.thrown = S2.thrown] ELSE S2))
        ELSE IF InstanceOf(h, t1, "List") /\ InstanceOf(h, t2, "List") THEN
            unifyAtomic([S EXCEPT !.heap = h], h[t1].elemType, h[t2].elemType, "Elemento Lista", nodeId)
        ELSE Throw([S EXCEPT !.heap = h],
                   "Incompativel: " \o toString(h, t1) \o " vs " \o toString(h, t2))))

\* a unify that unifies the returns of two arrows before their parameters
RECURSIVE unifyReturnsFirst(_, _, _, _, _)
unifyReturnsFirst(S, t01, t02, ctx, nodeId) ==
    Let(prune(S.heap, t01), LAMBDA p1 :
    Let(prune(p1.heap, t02), LAMBDA p2 :
    LET h == p2.heap
        t1 == p1.val
        t2 == p2.val
    IN  IF t1 = t2 THEN [S EXCEPT !.heap = h]
        ELSE IF InstanceOf(h, t1, "Int") /\ InstanceOf(h, t2, "Int") THEN [S EXCEPT !.heap = h]
        ELSE IF InstanceOf(h, t1, "Bool") /\ InstanceOf(h, t2, "Bool") THEN [S EXCEPT !.heap = h]
        ELSE IF InstanceOf(h, t1, "Var") THEN
            Let(occursIn(h, t1, t2), LAMBDA oc :
            IF oc.val
            THEN Throw([S EXCEPT !.heap = oc.heap],
                       "Occurs Check: Ciclo infinito (" \o toString(oc.heap, t1)
                           \o " em " \o toString(oc.heap, t2) \o ")")
            ELSE Bind(S, oc.heap, t1, t2, ctx, nodeId))
        ELSE IF InstanceOf(h, t2, "Var") THEN unifyReturnsFirst([S EXCEPT !.heap = h], t2, t1, ctx, nodeId)
        ELSE IF InstanceOf(h, t1, "Arrow") /\ InstanceOf(h, t2, "Arrow") THEN
            Then(unifyReturnsFirst([S EXCEPT !.heap = h], h[t1].ret, h[t2].ret, "Retorno Funcao", nodeId),
                 LAMBDA S1 :
                 unifyReturnsFirst(S1, S1.heap[t1].param, S1.heap[t2].param, "Param Funcao", nodeId))
        ELSE IF InstanceOf(h, t1, "List") /\ InstanceOf(h, t2, "List") THEN
            unifyReturnsFirst([S EXCEPT !.heap = h], h[t1].elemType, h[t2].elemType, "Elemento Lista", nodeId)
        ELSE Throw([S EXCEPT !.heap = h],
                   "Incompativel: " \o toString(h, t1) \o " vs " \o toString(h, t2))))

\* a unify without the branch that swaps a variable on the right to the left
RECURSIVE unifyNoSwap(_, _, _, _, _)
unifyNoSwap(S, t01, t02, ctx, nodeId) ==
    Let(prune(S.heap, t01), LAMBDA p1 :
    Let(prune(p1.heap, t02), LAMBDA p2 :
    LET h == p2.heap
        t1 == p1.val
        t2 == p2.val
    IN  IF t1 = t2 THEN [S EXCEPT !.heap = h]
        ELSE IF InstanceOf(h, t1, "Int") /\ InstanceOf(h, t2, "Int") THEN [S EXCEPT !.heap = h]
        ELSE IF InstanceOf(h, t1, "Bool") /\ InstanceOf(h, t2, "Bool") THEN [S EXCEPT !.heap = h]
        ELSE IF InstanceOf(h, t1, "Var") THEN
            Let(occursIn(h, t1, t2), LAMBDA oc :
            IF oc.val
            THEN Throw([S EXCEPT !.heap = oc.heap],
                       "Occurs Check: Ciclo infinito (" \o toString(oc.heap, t1)
                           \o " em " \o toString(oc.heap, t2) \o ")")
            ELSE Bind(S, oc.heap, t1, t2, ctx, nodeId))
        ELSE IF InstanceOf(h, t1, "Arrow") /\ InstanceOf(h, t2, "Arrow") THEN
            Then(unifyNoSwap([S EXCEPT !.heap = h], h[t1].param, h[t2].param, "Param Funcao", nodeId),
                 LAMBDA S1 :
                 unifyNoSwap(S1, S1.heap[t1].ret, S1.heap[t2].ret, "Retorno Funcao", nodeId))
        ELSE IF InstanceOf(h, t1, "List") /\ InstanceOf(h, t2, "List") THEN
            unifyNoSwap([S EXCEPT !.heap = h], h[t1].elemType, h[t2].elemType, "Elemento Lista", nodeId)
        ELSE Throw([S EXCEPT !.heap = h],
                   "Incompativel: " \o toString(h, t1) \o " vs " \o toString(h, t2))))

RECURSIVE unify(_, _, _, _, _)
unify(S, t01, t02, ctx, nodeId) ==
    Let(prune(S.heap, t01), LAMBDA p1 :
    Let(prune(p1.heap, t02), LAMBDA p2 :
    LET h == p2.heap
        t1 == p1.val
        t2 == p2.val
    IN  IF t1 = t2 THEN [S EXCEPT !.heap = h]
        ELSE IF InstanceOf(h, t1, "Int") /\ InstanceOf(h, t2, "Int") THEN [S EXCEPT !.heap = h]
        ELSE IF InstanceOf(h, t1, "Bool") /\ InstanceOf(h, t2, "Bool") THEN [S EXCEPT !.heap = h]
        ELSE IF InstanceOf(h, t1, "Var") THEN
            Let(occursIn(h, t1, t2), LAMBDA oc :
            IF oc.val
            THEN Throw([S EXCEPT !.heap = oc.heap],
                       "Occurs Check: Ciclo infinito (" \o toString(oc.heap, t1)
                           \o " em " \o toString(oc.heap, t2) \o ")")
            ELSE Bind(S, oc.heap, t1, t2, ctx, nodeId))
        ELSE IF InstanceOf(h, t2, "Var") THEN unify([S EXCEPT !.heap = h], t2, t1, ctx, nodeId)
        ELSE IF InstanceOf(h, t1, "Arrow") /\ InstanceOf(h, t2, "Arrow") THEN
            Then(unify([S EXCEPT !.heap = h], h[t1].param, h[t2].param, "Param Funcao", nodeId),
                 LAMBDA S1 :
                 unify(S1, S1.heap[t1].ret, S1.heap[t2].ret, "Retorno Funcao", nodeId))
        ELSE IF InstanceOf(h, t1, "List") /\ InstanceOf(h, t2, "List") THEN
            unify([S EXCEPT !.heap = h], h[t1].elemType, h[t2].elemType, "Elemento Lista", nodeId)
        ELSE Throw([S EXCEPT !.heap = h],
                   "Incompativel: " \o toString(h, t1) \o " vs " \o toString(h, t2))))

\* expr.toString() of an AST node
ExprString(e) ==
    CASE e.tag = "EInt" -> "Int(" \o ToString(e.val) \o ")"
      [] e.tag = "EBool" -> "Bool(" \o (IF e.val THEN "true" ELSE "false") \o ")"
      [] e.tag = "EVar" -> "Var(" \o e.name \o ")"
      [] e.tag = "EBinOp" -> "Op(" \o e.op \o ")"
      [] e.tag = "EIf" -> "If"
      [] e.tag = "EFun" -> "Fun(" \o e.param \o ")"
      [] e.tag = "ELet" -> "Let(" \o e.name \o ")"
      [] e.tag = "EApp" -> "App"
      [] e.tag = "EList" -> "List"
      [] e.tag = "EEmptyList" -> "[]"

\* env[name] on an object literal: an own property, else a member of
\* Object.prototype, else undefined (Null)
Lookup(env, name) ==
    IF name \in DOMAIN env THEN Some(env[name])
    ELSE IF name \in ObjectPrototype THEN Some(NativeRef(name))
    ELSE Null

\* an extension that leaves a name the environment already binds as it is
ExtendKeepsOuter(env, name, t) ==
    [n \in DOMAIN env \cup {name} |-> IF n \in DOMAIN env THEN env[n] ELSE t]

\* { ...env, [name]: t }
Extend(env, name, t) == [n \in DOMAIN env \cup {name} |-> IF n = name THEN t ELSE env[n]]

\* new K(...) inside analyze: the object joins the heap and is the value
Alloc(S, obj) == [S EXCEPT !.heap = Append(@, obj), !.val = Len(S.heap) + 1]
\* newTypeVar() inside analyze
Fresh(S) ==
    Let(newTypeVar(S.heap, S.typeVars), LAMBDA n :
    [S EXCEPT !.heap = n.heap, !.typeVars = n.typeVars, !.val = n.val])
\* a trace call that passes no node
EmitNoNode(S, msg, type, nodeId) ==
    Let(snapshotTypes(S.heap, S.typeVars), LAMBDA snap :
    trace([S EXCEPT !.heap = snap.heap], msg, type, snap.val, Null))
\* trace(msg, type, snapshotTypes(), nodeId)
Emit(S, msg, type, nodeId) ==
    Let(snapshotTypes(S.heap, S.typeVars), LAMBDA snap :
    trace([S EXCEPT !.heap = snap.heap], msg, type, snap.val, nodeId))

\* the arithmetic branch of EBinOp, L and R being the operand types
analyzeArith(C, expr, L, R) ==
    Let(Alloc(C, TypeInt), LAMBDA I1 :
    Then(unify(I1, L, I1.val, "Esq de '" \o expr.op \o "'", Some(expr.uid)), LAMBDA U1 :
    Let(Alloc(U1, TypeInt), LAMBDA I2 :
    Then(unify(I2, R, I2.val, "Dir de '" \o expr.op \o "'", Some(expr.uid)), LAMBDA U2 :
    Alloc(U2, TypeInt)))))

RECURSIVE analyze(_, _, _)
analyze(S0, env, expr) ==
    Let(Emit(S0, "AST: Analisando " \o ExprString(expr), "ast", Some(expr.uid)), LAMBDA S :
    CASE expr.tag = "EInt" -> Alloc(S, TypeInt)
      [] expr.tag = "EBool" -> Alloc(S, TypeBool)
      [] expr.tag = "EVar" ->
            LET t == Lookup(env, expr.name)
            IN  IF t = Null THEN Throw(S, "Variavel '" \o expr.name \o "' nao existe")
                ELSE [S EXCEPT !.val = t[1]]
      [] expr.tag = "EEmptyList" ->
            Let(Fresh(S), LAMBDA V : Alloc(V, TypeList(V.val)))
      [] expr.tag = "EList" ->
            Then(analyze(S, env, expr.head), LAMBDA H :
            Then(analyze(H, env, expr.tail), LAMBDA T :
            Let(Alloc(T, TypeList(H.val)), LAMBDA L :
            Then(unify(L, T.val, L.val, "Lista Homogenea", Some(expr.uid)), LAMBDA U :
            Alloc(U, TypeList(H.val))))))
      [] expr.tag = "EBinOp" ->
            Then(analyze(S, env, expr.left), LAMBDA L :
            Then(analyze(L, env, expr.right), LAMBDA R :
            Let(Emit(R, "RESTRICAO: " \o expr.op \o " exige tipos compativeis", "info",
                     Some(expr.uid)), LAMBDA C :
            IF expr.op \in {"+", "-", "*", "/"}
            THEN analyzeArith(C, expr, L.val, R.val)
            ELSE Then(unify(C, L.val, R.val, "Operandos de '" \o expr.op \o "'", Some(expr.uid)),
                      LAMBDA U : Alloc(U, TypeBool)))))
      [] expr.tag = "EIf" ->
            Then(analyze(S, env, expr.cond), LAMBDA C :
            Let(Alloc(C, TypeBool), LAMBDA B :
            Then(unify(B, C.val, B.val, "Condicao If", Some(expr.uid)), LAMBDA U1 :
            Then(analyze(U1, env, expr.thenBr), LAMBDA T :
            Then(analyze(T, env, expr.elseBr), LAMBDA E :
            Then(unify(E, T.val, E.val, "Ramos Then/Else", Some(expr.uid)), LAMBDA U2 :
            [U2 EXCEPT !.val = T.val]))))))
      [] expr.tag = "EFun" ->
            Let(Fresh(S), LAMBDA P :
            Let(Emit(P, "ESCOPO: " \o expr.param \o " : " \o P.heap[P.val].name, "warn",
                     Some(expr.uid)), LAMBDA W :
            Let(Extend(env, expr.param, P.val), LAMBDA newEnv :
            Then(analyze(W, newEnv, expr.body), LAMBDA B :
            Alloc(B, TypeArrow(P.val, B.val))))))
      [] expr.tag = "EApp" ->
            Then(analyze(S, env, expr.func), LAMBDA F :
            Then(analyze(F, env, expr.arg), LAMBDA A :
            Let(Fresh(A), LAMBDA R :
            Let(Alloc(R, TypeArrow(A.val, R.val)), LAMBDA W :
            Then(unify(W, F.val, W.val, "Aplicacao", Some(expr.uid)), LAMBDA U :
            [U EXCEPT !.val = R.val])))))
      [] expr.tag = "ELet" ->
            Then(analyze(S, env, expr.val), LAMBDA V :
            Let(Extend(env, expr.name, V.val), LAMBDA newEnv :
            analyze(V, newEnv, expr.body)))
      [] OTHER -> Throw(S, "Desconhecido"))

\* {}: the empty environment
EmptyEnv == [n \in {} |-> 0]

-----------------------------------------------------------------------------
(* 5. UI: the App component *)

\* The objects only the old registry referenced are garbage once it is replaced.
Collect(h, tv) == IF tv = <<>> THEN <<>> ELSE h

\* a catch block that leaves error unset
CaughtNoSetError(F, e, ast) ==
    Let(Emit(F, "FALHA: " \o e.message, "error", Null), LAMBDA C :
    [heap |-> C.heap, typeVars |-> C.typeVars, steps |-> C.recordedSteps,
     astRoot |-> ast, finalType |-> Null, error |-> Null, resultType |-> 0])

\* a run whose setAstRoot is reached only when nothing threw
CaughtNoAst(F, e, ast) ==
    Let(Emit(F, "FALHA: " \o e.message, "error", Null), LAMBDA C :
    [heap |-> C.heap, typeVars |-> C.typeVars, steps |-> C.recordedSteps,
     astRoot |-> Null, finalType |-> Null, error |-> Some(e.message), resultType |-> 0])

\* a catch block that hands over the FALHA event alone
CaughtOnlyError(F, e, ast) ==
    Let(Emit(F, "FALHA: " \o e.message, "error", Null), LAMBDA C :
    [heap |-> C.heap, typeVars |-> C.typeVars,
     steps |-> <<C.recordedSteps[Len(C.recordedSteps)]>>,
     astRoot |-> ast, finalType |-> Null, error |-> Some(e.message), resultType |-> 0])

\* the catch block: the FALHA event and setError, F being the state when the
\* exception e was thrown, ast what setAstRoot was given before it
Caught(F, e, ast) ==
    Let(Emit(F, "FALHA: " \o e.message, "error", Null), LAMBDA C :
    [heap |-> C.heap, typeVars |-> C.typeVars, steps |-> C.recordedSteps,
     astRoot |-> ast, finalType |-> Null, error |-> Some(e.message), resultType |-> 0])

\* a run that throws when the parser leaves tokens unread
AnalysisStrict(src, h0, tv0) ==
    Let([heap |-> h0, typeVars |-> tv0, recordedSteps |-> <<>>, thrown |-> Null, val |-> 0],
        LAMBDA S0 :
    Let(parseExpression(tokenize(src), NewParser), LAMBDA P :
    IF P.thrown # Null THEN Caught(S0, P.thrown[1], Null)
    ELSE IF P.pos < Len(tokenize(src))
    THEN Caught(S0, [name |-> "Error", message |-> "Tokens sobrando"], P.val)
    ELSE Let(analyze(S0, EmptyEnv, P.val[1]), LAMBDA A :
         IF A.thrown # Null THEN Caught(A, A.thrown[1], P.val)
         ELSE Let(prune(A.heap, A.val), LAMBDA R :
              [heap |-> R.heap, typeVars |-> A.typeVars, steps |-> A.recordedSteps,
               astRoot |-> P.val, finalType |-> Some(toString(R.heap, R.val)),
               error |-> Null, resultType |-> A.val]))))

\* the body of runAnalysis from `const recordedSteps = []` to the end of the
\* try/catch: what it leaves in the registry and heap, what it hands to
\* setAstRoot, setFinalType, setError and setSteps, and its local resultType
Analysis(src, h0, tv0) ==
    Let([heap |-> h0, typeVars |-> tv0, recordedSteps |-> <<>>, thrown |-> Null, val |-> 0],
        LAMBDA S0 :
    Let(parseExpression(tokenize(src), NewParser), LAMBDA P :
    IF P.thrown # Null THEN Caught(S0, P.thrown[1], Null)
    ELSE Let(analyze(S0, EmptyEnv, P.val[1]), LAMBDA A :
         IF A.thrown # Null THEN Caught(A, A.thrown[1], P.val)
         ELSE Let(prune(A.heap, A.val), LAMBDA R :
              [heap |-> R.heap, typeVars |-> A.typeVars, steps |-> A.recordedSteps,
               astRoot |-> P.val, finalType |-> Some(toString(R.heap, R.val)),
               error |-> Null, resultType |-> A.val]))))

\* the source texts the editor is given
FunXPlus1 == <<"f","u","n"," ","x"," ","-",">"," ","x"," ","+"," ","1">>
ListOfTwo == <<"[","1",","," ","2","]">>
FunList == <<"f","u","n"," ","x"," ","-",">"," ","[","x","]">>
ListMixed == <<"[","1",","," ","t","r","u","e","]">>
FunIdentity == <<"f","u","n"," ","x"," ","-",">"," ","x">>
FunSelfApp == <<"f","u","n"," ","x"," ","-",">"," ","x"," ","x">>
Sources ==
    {FunXPlus1, ListOfTwo, FunList, ListMixed, FunIdentity, FunSelfApp}
    \cup {<<"1","0"," ","+"," ","5">>,   \* 10 + 5
          <<"t","r","u","e"," ","+"," ","1">>,   \* true + 1
          <<"f","u","n"," ","f"," ","-",">"," ","f"," ","1">>,   \* fun f -> f 1
          <<"f","u","n"," ","g"," ","-",">"," ","g"," ","(","f","u","n"," ","x"," ","-",">"," ","x",")">>,   \* fun g -> g (fun x -> x)
          <<"t","o","S","t","r","i","n","g">>,   \* toString
          <<"y">>,   \* y
          <<"f","u","n"," ","x"," ","-",">"," ","y">>,   \* fun x -> y
          <<"l","e","t">>,   \* let
          <<"1"," ","+">>,   \* 1 +
          <<"l","e","t"," ","x"," ","="," ","1"," ","i","n"," ","x">>,   \* let x = 1 in x
          <<"f","u","n"," ","x"," ","-",">"," ","f","u","n"," ","x"," ","-",">"," ","x">>,   \* fun x -> fun x -> x
          <<"(","f","u","n"," ","x"," ","-",">"," ","x",")"," ","x">>,   \* (fun x -> x) x
          <<"l","e","t"," ","x"," ","="," ","1"," ","i","n"," ","(","f","u","n"," ","x"," ","-",">"," ","x",")"," ","x">>,   \* let x = 1 in (fun x -> x) x
          <<"l","e","t"," ","x"," ","="," ","1"," ","i","n"," ","l","e","t"," ","x"," ","="," ","t","r","u","e"," ","i","n"," ","x">>,   \* let x = 1 in let x = true in x
          <<"1"," ","<","="," ","2">>,   \* 1 <= 2
          <<"1"," ",">","="," ","t","r","u","e">>,   \* 1 >= true
          <<"1"," ","=","="," ","1">>,   \* 1 == 1
          <<"t","r","u","e"," ","!","="," ","f","a","l","s","e">>,   \* true != false
          <<"1"," ","<"," ","2">>,   \* 1 < 2
          <<"1"," ",">"," ","t","r","u","e">>,   \* 1 > true
          <<"1"," ",":",":"," ","2">>,   \* 1 :: 2
          <<"1"," ","-"," ","2"," ","-"," ","3">>,   \* 1 - 2 - 3
          <<"2"," ","*"," ","t","r","u","e">>,   \* 2 * true
          <<"4"," ","/"," ","2">>,   \* 4 / 2
          <<"1"," ","="," ","2">>,   \* 1 = 2
          <<"1","0"," ",")">>,   \* 10 )
          <<"t","r","u","e"," ","+"," ","1"," ",")">>}   \* true + 1 )

\* textarea onChange and the scenario buttons
SetCode ==
    /\ \E s \in Sources : code' = s
    /\ UNCHANGED <<steps, currentStep, error, finalType, astRoot, typeVars, heap, tokens, result, pc, args, logs, typeVarCounter>>

runAnalysis ==
    \E r \in {Analysis(code, Collect(heap, resetTypeVars(typeVars)), resetTypeVars(typeVars))} :
        /\ typeVars' = r.typeVars
        /\ heap' = r.heap
        /\ astRoot' = r.astRoot
        /\ finalType' = r.finalType
        /\ error' = r.error
        /\ steps' = r.steps
        /\ currentStep' = 0
        /\ UNCHANGED <<code, tokens, result, pc, args, logs, typeVarCounter>>

Min(a, b) == IF a <= b THEN a ELSE b
Max(a, b) == IF a >= b THEN a ELSE b

\* a next-step control that is never disabled and does not clamp
nextStepUnchecked ==
    /\ currentStep' = currentStep + 1
    /\ currentStep' <= MaxStack
    /\ UNCHANGED <<code, steps, error, finalType, astRoot, typeVars, heap, tokens, result, pc, args, logs, typeVarCounter>>

\* enabled unless currentStep >= steps.length - 1
nextStep ==
    /\ ~(currentStep >= Len(steps) - 1)
    /\ currentStep' = Min(currentStep + 1, Len(steps) - 1)
    /\ UNCHANGED <<code, steps, error, finalType, astRoot, typeVars, heap, tokens, result, pc, args, logs, typeVarCounter>>

\* enabled unless currentStep <= 0
prevStep ==
    /\ ~(currentStep <= 0)
    /\ currentStep' = Max(currentStep - 1, 0)
    /\ UNCHANGED <<code, steps, error, finalType, astRoot, typeVars, heap, tokens, result, pc, args, logs, typeVarCounter>>

\* useState(SCENARIOS[0].code) and the other initial values
Init ==
    /\ code = FunXPlus1
    /\ steps = <<>>
    /\ currentStep = -1
    /\ error = Null
    /\ finalType = Null
    /\ astRoot = Null
    /\ typeVars = <<>>
    /\ heap = <<>>
    /\ tokens = <<>>
    /\ result = Null
    /\ pc = "app"
    /\ args = <<>>
    /\ logs = <<>>
    /\ typeVarCounter = 0

Next == SetCode \/ runAnalysis \/ nextStep \/ prevStep

Spec == Init /\ [][Next]_vars

-----------------------------------------------------------------------------
(* The earlier component, src/App.js: the same pipeline without lists, with *)
(* a counter instead of the registry and a logger instead of the trace.     *)
(* Its definitions carry the prefix AppJs_.                                  *)

\* the alternatives of its regular expression that differ
AppJs_OpWords == << <<"=","=">>, <<"!","=">>, <<"<","=">>, <<">","=">>, <<"<">>, <<">">>, <<"+">>,
                    <<"-">>, <<"*">>, <<"/">>, <<"=">> >>
AppJs_PuncWords == << <<"(">>, <<")">> >>

AppJs_NextMatch(input, i) ==
    LET b == FirstWord(input, i, BoolWords)
        k == FirstWord(input, i, KeyWords)
        a == FirstWord(input, i, ArrowWords)
        o == FirstWord(input, i, AppJs_OpWords)
        u == FirstWord(input, i, AppJs_PuncWords)
    IN  IF IsSpace(input[i]) THEN [tok |-> Null, next |-> RunEnd(input, i, "s")]
        ELSE IF input[i] \in Digit THEN
            LET j == RunEnd(input, i, "d")
            IN  [tok |-> Some([type |-> "NUM", val |-> parseInt(input, i, j, 0)]), next |-> j]
        ELSE IF b # 0 THEN
            [tok |-> Some([type |-> "BOOL", val |-> (b = 1)]), next |-> i + Len(BoolWords[b])]
        ELSE IF k # 0 THEN
            [tok |-> Some([type |-> "KW", val |-> Text(KeyWords[k], 1, Len(KeyWords[k]) + 1)]),
             next |-> i + Len(KeyWords[k])]
        ELSE IF a # 0 THEN [tok |-> Some([type |-> "ARROW", val |-> "->"]), next |-> i + 2]
        ELSE IF o # 0 THEN
            [tok |-> Some([type |-> "OP", val |-> Text(AppJs_OpWords[o], 1, Len(AppJs_OpWords[o]) + 1)]),
             next |-> i + Len(AppJs_OpWords[o])]
        ELSE IF IsIdStart(input[i]) THEN
            LET j == RunEnd(input, i, "w")
            IN  [tok |-> Some([type |-> "ID", val |-> Text(input, i, j)]), next |-> j]
        ELSE IF u # 0 THEN [tok |-> Some([type |-> "PUNC", val |-> input[i]]), next |-> i + 1]
        ELSE [tok |-> Null, next |-> i + 1]

RECURSIVE AppJs_tokenizeFrom(_, _)
AppJs_tokenizeFrom(input, i) ==
    IF i > Len(input) THEN <<>>
    ELSE Let(AppJs_NextMatch(input, i), LAMBDA m : m.tok \o AppJs_tokenizeFrom(input, m.next))

AppJs_tokenize(input) == AppJs_tokenizeFrom(input, 1)

\* its AST nodes carry no uid
AppJs_EInt(v) == [tag |-> "EInt", val |-> v]
AppJs_EBool(v) == [tag |-> "EBool", val |-> v]
AppJs_EVar(n) == [tag |-> "EVar", name |-> n]
AppJs_EBinOp(op, l, r) == [tag |-> "EBinOp", op |-> op, left |-> l, right |-> r]
AppJs_EIf(c, t, e) == [tag |-> "EIf", cond |-> c, thenBr |-> t, elseBr |-> e]
AppJs_EFun(p, b) == [tag |-> "EFun", param |-> p, body |-> b]
AppJs_ELet(n, v, b) == [tag |-> "ELet", name |-> n, val |-> v, body |-> b]
AppJs_EApp(f, a) == [tag |-> "EApp", func |-> f, arg |-> a]

\* Parser state: pos, the exception in flight and the value returned last
AppJs_NewParser == [pos |-> 0, thrown |-> Null, val |-> Null]
AppJs_peek(toks, P) == IF P.pos < Len(toks) THEN Some(toks[P.pos + 1]) ELSE Null
AppJs_consume(P) == [P EXCEPT !.pos = @ + 1]
AppJs_Matches(toks, P, type, val) ==
    LET t == AppJs_peek(toks, P)
    IN  t # Null /\ t[1].type = type /\ (val = "" \/ t[1].val = val)
AppJs_expect(toks, P, type, val) ==
    IF AppJs_Matches(toks, P, type, val) THEN AppJs_consume(P)
    ELSE ParseThrow(P, "Error", "Erro de Sintaxe: Esperado " \o (IF val # "" THEN val ELSE type)
                                    \o ", encontrado " \o ValString(AppJs_peek(toks, P)))
AppJs_Returned(P, node) == [P EXCEPT !.val = Some(node)]
AppJs_IsAtomStart(t) ==
    t # Null /\ ( \/ t[1].type \in {"NUM", "BOOL", "ID"}
                  \/ (t[1].type = "PUNC" /\ t[1].val = "(") )

RECURSIVE AppJs_parseExpression(_, _)
RECURSIVE AppJs_parseBinary(_, _)
RECURSIVE AppJs_parseAppLoop(_, _)
RECURSIVE AppJs_parseAtom(_, _)

AppJs_parseAtom(toks, P) ==
    LET t == AppJs_peek(toks, P)
    IN  IF t = Null THEN ParseThrow(P, "Error", "Fim de arquivo inesperado")
        ELSE IF t[1].type = "NUM" THEN AppJs_Returned(AppJs_consume(P), AppJs_EInt(t[1].val))
        ELSE IF t[1].type = "BOOL" THEN AppJs_Returned(AppJs_consume(P), AppJs_EBool(t[1].val))
        ELSE IF t[1].type = "ID" THEN AppJs_Returned(AppJs_consume(P), AppJs_EVar(t[1].val))
        ELSE IF AppJs_Matches(toks, P, "PUNC", "(") THEN
            Then(AppJs_parseExpression(toks, AppJs_consume(P)), LAMBDA X :
                 AppJs_expect(toks, X, "PUNC", ")"))
        ELSE ParseThrow(P, "Error", "Token inesperado: " \o ValString(t))

AppJs_parseAppLoop(toks, P) ==
    IF AppJs_IsAtomStart(AppJs_peek(toks, P))
    THEN Then(AppJs_parseAtom(toks, P), LAMBDA A :
         AppJs_parseAppLoop(toks, AppJs_Returned(A, AppJs_EApp(P.val[1], A.val[1]))))
    ELSE P

AppJs_parseApp(toks, P) == Then(AppJs_parseAtom(toks, P), LAMBDA A : AppJs_parseAppLoop(toks, A))

AppJs_parseBinary(toks, P) ==
    Then(AppJs_parseApp(toks, P), LAMBDA L :
    LET t == AppJs_peek(toks, L)
    IN  IF t # Null /\ t[1].type = "OP" /\ t[1].val # "="
        THEN Then(AppJs_parseBinary(toks, AppJs_consume(L)), LAMBDA R :
             AppJs_Returned(R, AppJs_EBinOp(t[1].val, L.val[1], R.val[1])))
        ELSE L)

AppJs_parseLet(toks, P) ==
    LET tId == AppJs_peek(toks, AppJs_consume(P))
        P2 == AppJs_consume(AppJs_consume(P))
    IN  IF tId = Null THEN ParseThrow(P2, "TypeError", UndefinedRead)
        ELSE IF tId[1].type # "ID" THEN ParseThrow(P2, "Error", "Esperado identificador apos 'let'")
        ELSE Then(AppJs_expect(toks, P2, "OP", "="), LAMBDA E1 :
             Then(AppJs_parseExpression(toks, E1), LAMBDA V :
             Then(AppJs_expect(toks, V, "KW", "in"), LAMBDA E2 :
             Then(AppJs_parseExpression(toks, E2), LAMBDA B :
             AppJs_Returned(B, AppJs_ELet(tId[1].val, V.val[1], B.val[1]))))))

AppJs_parseFun(toks, P) ==
    LET tParam == AppJs_peek(toks, AppJs_consume(P))
        P2 == AppJs_consume(AppJs_consume(P))
    IN  IF tParam = Null THEN ParseThrow(P2, "TypeError", UndefinedRead)
        ELSE IF tParam[1].type # "ID" THEN ParseThrow(P2, "Error", "Esperado parametro apos 'fun'")
        ELSE Then(AppJs_expect(toks, P2, "ARROW", ""), LAMBDA E1 :
             Then(AppJs_parseExpression(toks, E1), LAMBDA B :
             AppJs_Returned(B, AppJs_EFun(tParam[1].val, B.val[1]))))

AppJs_parseIf(toks, P) ==
    Then(AppJs_parseExpression(toks, AppJs_consume(P)), LAMBDA C :
    Then(AppJs_expect(toks, C, "KW", "then"), LAMBDA E1 :
    Then(AppJs_parseExpression(toks, E1), LAMBDA T :
    Then(AppJs_expect(toks, T, "KW", "else"), LAMBDA E2 :
    Then(AppJs_parseExpression(toks, E2), LAMBDA F :
    AppJs_Returned(F, AppJs_EIf(C.val[1], T.val[1], F.val[1])))))))

AppJs_parseExpression(toks, P) ==
    IF AppJs_Matches(toks, P, "KW", "let") THEN AppJs_parseLet(toks, P)
    ELSE IF AppJs_Matches(toks, P, "KW", "fun") THEN AppJs_parseFun(toks, P)
    ELSE IF AppJs_Matches(toks, P, "KW", "if") THEN AppJs_parseIf(toks, P)
    ELSE AppJs_parseBinary(toks, P)

\* The interpreter state threaded through its unify and analyze: the heap, the
\* counter, the entries pushed by the logger, the exception in flight and the
\* value returned.
AppJs_newTypeVar(S) ==
    [S EXCEPT !.heap = Append(@, TypeVar("T" \o ToString(S.typeVarCounter))),
              !.typeVarCounter = @ + 1,
              !.val = Len(S.heap) + 1]

RECURSIVE AppJs_prune(_, _)
AppJs_prune(h, t) ==
    IF InstanceOf(h, t, "Var") /\ h[t].instance # 0
    THEN Let(AppJs_prune(h, h[t].instance), LAMBDA r :
         [heap |-> [r.heap EXCEPT ![t].instance = r.val], val |-> r.val])
    ELSE [heap |-> h, val |-> t]

RECURSIVE AppJs_occursIn(_, _, _)
AppJs_occursIn(h, tvar, type0) ==
    Let(AppJs_prune(h, type0), LAMBDA p :
    LET type == p.val
    IN  IF tvar = type THEN [heap |-> p.heap, val |-> TRUE]
        ELSE IF InstanceOf(p.heap, type, "Arrow") THEN
            Let(AppJs_occursIn(p.heap, tvar, p.heap[type].param), LAMBDA l :
            IF l.val THEN l ELSE AppJs_occursIn(l.heap, tvar, l.heap[type].ret))
        ELSE [heap |-> p.heap, val |-> FALSE])

\* logger(msg, type): the id of an entry is its rank, not Math.random()
AppJs_logger(S, msg, type) ==
    [S EXCEPT !.localLogs = Append(@, [msg |-> msg, type |-> type, id |-> Len(S.localLogs)])]

RECURSIVE AppJs_unify(_, _, _, _)
AppJs_unify(S, t01, t02, contextMsg) ==
    Let(AppJs_prune(S.heap, t01), LAMBDA p1 :
    Let(AppJs_prune(p1.heap, t02), LAMBDA p2 :
    LET h == p2.heap
        t1 == p1.val
        t2 == p2.val
    IN  IF t1 = t2 THEN [S EXCEPT !.heap = h]
        ELSE IF InstanceOf(h, t1, "Int") /\ InstanceOf(h, t2, "Int") THEN [S EXCEPT !.heap = h]
        ELSE IF InstanceOf(h, t1, "Bool") /\ InstanceOf(h, t2, "Bool") THEN [S EXCEPT !.heap = h]
        ELSE IF InstanceOf(h, t1, "Var") THEN
            Let(AppJs_occursIn(h, t1, t2), LAMBDA oc :
            IF oc.val
            THEN Throw([S EXCEPT !.heap = oc.heap],
                       "Erro de Tipo Infinito: " \o toString(oc.heap, t1)
                           \o " ocorre dentro de " \o toString(oc.heap, t2))
            ELSE Let([oc.heap EXCEPT ![t1].instance = t2], LAMBDA h2 :
                 AppJs_logger([S EXCEPT !.heap = h2],
                     "UNIFICAR: " \o h2[t1].name \o " agora e " \o toString(h2, t2) \o " ("
                         \o (IF contextMsg # "" THEN contextMsg ELSE "Resolucao de restricao")
                         \o ")",
                     "success")))
        ELSE IF InstanceOf(h, t2, "Var") THEN AppJs_unify([S EXCEPT !.heap = h], t2, t1, contextMsg)
        ELSE IF InstanceOf(h, t1, "Arrow") /\ InstanceOf(h, t2, "Arrow") THEN
            Then(AppJs_unify([S EXCEPT !.heap = h], h[t1].param, h[t2].param,
                             "Parametros de funcao devem coincidir"),
                 LAMBDA S1 :
                 AppJs_unify(S1, S1.heap[t1].ret, S1.heap[t2].ret, "Retorno de funcao deve coincidir"))
        ELSE Throw([S EXCEPT !.heap = h],
                   "Tipo Incompativel: Esperado " \o toString(h, t1)
                       \o ", Encontrado " \o toString(h, t2))))

\* the EBinOp branch after the operands, L and R being their types: an
\* operator of neither list leaves the branch and reaches the final throw
AppJs_analyzeBinOp(S, expr, L, R) ==
    IF expr.op \in {"+", "-", "*", "/"}
    THEN Let(Alloc(S, TypeInt), LAMBDA I1 :
         Then(AppJs_unify(I1, L, I1.val, "Lado esquerdo de '" \o expr.op \o "' deve ser Int"),
              LAMBDA U1 :
         Let(Alloc(U1, TypeInt), LAMBDA I2 :
         Then(AppJs_unify(I2, R, I2.val, "Lado direito de '" \o expr.op \o "' deve ser Int"),
              LAMBDA U2 :
         Alloc(U2, TypeInt)))))
    ELSE IF expr.op \in {"==", "!=", "<", ">"}
    THEN Then(AppJs_unify(S, L, R, "Operandos de '" \o expr.op \o "' devem ser iguais"),
              LAMBDA U : Alloc(U, TypeBool))
    ELSE Throw(S, "Expressao Desconhecida")

RECURSIVE AppJs_analyze(_, _, _)
AppJs_analyze(S, env, expr) ==
    CASE expr.tag = "EInt" -> Alloc(S, TypeInt)
      [] expr.tag = "EBool" -> Alloc(S, TypeBool)
      [] expr.tag = "EVar" ->
            LET t == Lookup(env, expr.name)
            IN  IF t = Null THEN Throw(S, "Variavel Indefinida: '" \o expr.name \o "'")
                ELSE [S EXCEPT !.val = t[1]]
      [] expr.tag = "EBinOp" ->
            Let(AppJs_logger(S, "RESTRICAO: Operador '" \o expr.op
                                    \o "' exige operandos compativeis.", "info"), LAMBDA G :
            Then(AppJs_analyze(G, env, expr.left), LAMBDA L :
            Then(AppJs_analyze(L, env, expr.right), LAMBDA R :
            AppJs_analyzeBinOp(R, expr, L.val, R.val))))
      [] expr.tag = "EIf" ->
            Let(AppJs_logger(S, "RESTRICAO: Condicao do 'if' deve ser Bool, ramos devem ser iguais.",
                             "info"), LAMBDA G :
            Then(AppJs_analyze(G, env, expr.cond), LAMBDA C :
            Let(Alloc(C, TypeBool), LAMBDA B :
            Then(AppJs_unify(B, C.val, B.val, "Condicao do 'if'"), LAMBDA U1 :
            Then(AppJs_analyze(U1, env, expr.thenBr), LAMBDA T :
            Then(AppJs_analyze(T, env, expr.elseBr), LAMBDA E :
            Then(AppJs_unify(E, T.val, E.val, "Ramo 'else' deve igualar ramo 'then'"), LAMBDA U2 :
            [U2 EXCEPT !.val = T.val])))))))
      [] expr.tag = "EFun" ->
            Let(AppJs_newTypeVar(S), LAMBDA P :
            Let(AppJs_logger(P, "NOVO ESCOPO: Parametro '" \o expr.param
                                    \o "' assumiu tipo novo " \o P.heap[P.val].name, "info"),
                LAMBDA W :
            Let(Extend(env, expr.param, P.val), LAMBDA newEnv :
            Then(AppJs_analyze(W, newEnv, expr.body), LAMBDA B :
            Alloc(B, TypeArrow(P.val, B.val))))))
      [] expr.tag = "EApp" ->
            Then(AppJs_analyze(S, env, expr.func), LAMBDA F :
            Then(AppJs_analyze(F, env, expr.arg), LAMBDA A :
            Let(AppJs_newTypeVar(A), LAMBDA R :
            Let(AppJs_logger(R, "RESTRICAO: Aplicando funcao " \o toString(R.heap, F.val)
                                    \o " ao argumento " \o toString(R.heap, A.val), "info"),
                LAMBDA G :
            Let(Alloc(G, TypeArrow(A.val, R.val)), LAMBDA W :
            Then(AppJs_unify(W, F.val, W.val, "Aplicacao de funcao"), LAMBDA U :
            [U EXCEPT !.val = R.val]))))))
      [] expr.tag = "ELet" ->
            Let(AppJs_logger(S, "LET: Inferindo tipo para '" \o expr.name \o "'...", "info"),
                LAMBDA G :
            Then(AppJs_analyze(G, env, expr.val), LAMBDA V :
            Let(Extend(env, expr.name, V.val), LAMBDA newEnv :
            Let(AppJs_logger(V, "AMBIENTE: '" \o expr.name \o "' definido como "
                                    \o toString(V.heap, V.val), "info"), LAMBDA G2 :
            AppJs_analyze(G2, newEnv, expr.body)))))
      [] OTHER -> Throw(S, "Expressao Desconhecida")

\* the catch block of runInference: setError and the ERRO entry
AppJs_Caught(F, e) ==
    Let(AppJs_logger(F, "ERRO: " \o e.message, "error"), LAMBDA C :
    [typeVarCounter |-> C.typeVarCounter, logs |-> C.localLogs, result |-> Null,
     error |-> Some(e.message)])

\* the body of runInference from `const localLogs = []` to the end of the
\* try/catch: what it hands to setResult, setError and setLogs
AppJs_Inference(src) ==
    Let(AppJs_logger([heap |-> <<>>, typeVarCounter |-> 0, localLogs |-> <<>>, thrown |-> Null,
                      val |-> 0], "1. Tokenizando entrada...", "info"), LAMBDA S1 :
    Let(AppJs_tokenize(src), LAMBDA toks :
    Let(AppJs_logger(S1, "2. Gerando AST (Parser)...", "info"), LAMBDA S2 :
    Let(AppJs_parseExpression(toks, AppJs_NewParser), LAMBDA P :
    IF P.thrown # Null THEN AppJs_Caught(S2, P.thrown[1])
    ELSE Let(IF AppJs_peek(toks, P) # Null
             THEN AppJs_logger(S2, "Aviso: Tokens sobrando apos analise.", "warn")
             ELSE S2, LAMBDA S3 :
         Let(AppJs_logger(S3, "3. Iniciando Algoritmo W (Inferencia)...", "info"), LAMBDA S4 :
         Let(AppJs_analyze(S4, EmptyEnv, P.val[1]), LAMBDA A :
         IF A.thrown # Null THEN AppJs_Caught(A, A.thrown[1])
         ELSE Let(AppJs_prune(A.heap, A.val), LAMBDA R :
              Let(toString(R.heap, R.val), LAMBDA final :
              Let(AppJs_logger(A, "SUCESSO: Tipo Inferido: " \o final, "success"), LAMBDA S5 :
              [typeVarCounter |-> S5.typeVarCounter, logs |-> S5.localLogs,
               result |-> Some(final), error |-> Null]))))))))))

\* its scenarios and the other texts its editor is given
AppJs_TenPlusFive == <<"1","0"," ","+"," ","5">>
AppJs_FunXPlus1 == <<"f","u","n"," ","x"," ","-",">"," ","x"," ","+"," ","1">>
AppJs_FunIdentity == <<"f","u","n"," ","x"," ","-",">"," ","x">>
AppJs_FunIf == <<"f","u","n"," ","x"," ","-",">"," ","i","f"," ","x"," ","t","h","e","n"," ","1"," ","e","l","s","e"," ","0">>
AppJs_TruePlusOne == <<"t","r","u","e"," ","+"," ","1">>
AppJs_LetApply == <<"l","e","t"," ","a","p","p","l","y"," ","="," ","(","f","u","n"," ","f"," ","-",">"," ","f"," ","1","0",")"," ","i","n"," ","a","p","p","l","y"," ","(","f","u","n"," ","x"," ","-",">"," ","x"," ","+"," ","1",")">>
AppJs_SCENARIOS == {AppJs_TenPlusFive, AppJs_FunXPlus1, AppJs_FunIdentity, AppJs_FunIf, AppJs_TruePlusOne, AppJs_LetApply}
AppJs_Sources ==
    {AppJs_TenPlusFive, AppJs_FunXPlus1, AppJs_FunIdentity, AppJs_FunIf, AppJs_TruePlusOne, AppJs_LetApply}
    \cup {<<"1"," ","<","="," ","2">>,   \* 1 <= 2
          <<"1"," ",">","="," ","2">>,   \* 1 >= 2
          <<"1"," ","=","="," ","2">>,   \* 1 == 2
          <<"1"," ","!","="," ","t","r","u","e">>,   \* 1 != true
          <<"1"," ","<"," ","2">>,   \* 1 < 2
          <<"t","r","u","e"," ",">"," ","f","a","l","s","e">>,   \* true > false
          <<"1"," ","-"," ","2">>,   \* 1 - 2
          <<"2"," ","*"," ","3">>,   \* 2 * 3
          <<"4"," ","/"," ","t","r","u","e">>,   \* 4 / true
          <<"1"," ",")">>,   \* 1 )
          <<"f","u","n"," ","x"," ","-",">"," ","x"," ","x">>,   \* fun x -> x x
          <<"y">>,   \* y
          <<"1"," ","="," ","2">>,   \* 1 = 2
          <<"t","r","u","e"," ","+"," ","1"," ",")">>}   \* true + 1 )

AppJs_Unused == <<steps, currentStep, finalType, astRoot, typeVars, heap, tokens, pc, args>>

\* loadScenario(sc)
AppJs_loadScenario ==
    /\ \E sc \in AppJs_SCENARIOS : code' = sc
    /\ error' = Null
    /\ result' = Null
    /\ logs' = <<>>
    /\ UNCHANGED typeVarCounter
    /\ UNCHANGED AppJs_Unused

\* textarea onChange
AppJs_setCode ==
    /\ \E s \in AppJs_Sources : code' = s
    /\ UNCHANGED <<error, result, logs, typeVarCounter>>
    /\ UNCHANGED AppJs_Unused

AppJs_runInference ==
    /\ \E r \in {AppJs_Inference(code)} :
          /\ typeVarCounter' = r.typeVarCounter
          /\ logs' = r.logs
          /\ result' = r.result
          /\ error' = r.error
    /\ UNCHANGED code
    /\ UNCHANGED AppJs_Unused

AppJs_Init ==
    /\ code = AppJs_TenPlusFive
    /\ steps = <<>>
    /\ currentStep = -1
    /\ error = Null
    /\ finalType = Null
    /\ astRoot = Null
    /\ typeVars = <<>>
    /\ heap = <<>>
    /\ tokens = <<>>
    /\ result = Null
    /\ pc = "appjs"
    /\ args = <<>>
    /\ logs = <<>>
    /\ typeVarCounter = 0

AppJs_Next == AppJs_loadScenario \/ AppJs_setCode \/ AppJs_runInference

SpecAppJs == AppJs_Init /\ [][AppJs_Next]_vars

-----------------------------------------------------------------------------
(* The engine's functions called directly.                                  *)
(* SpecUnify: a caller builds types and calls unify and prune on them.      *)

UnifyInit ==
    /\ code = <<>>
    /\ steps = <<>>
    /\ currentStep = -1
    /\ error = Null
    /\ finalType = Null
    /\ astRoot = Null
    /\ typeVars = <<>>
    /\ heap = <<>>
    /\ tokens = <<>>
    /\ result = Null
    /\ pc = "unify"
    /\ args = <<>>
    /\ logs = <<>>
    /\ typeVarCounter = 0

Refs == 1..Len(heap)
Untouched == <<code, currentStep, error, finalType, astRoot, tokens, pc, args, logs, typeVarCounter>>

\* newTypeVar()
CallNewTypeVar ==
    /\ Len(heap) < MaxHeap
    /\ \E n \in {newTypeVar(heap, typeVars)} : heap' = n.heap /\ typeVars' = n.typeVars
    /\ UNCHANGED <<steps, result>>
    /\ UNCHANGED Untouched

\* new TypeInt(), new TypeBool()
CallNewAtom ==
    /\ Len(heap) < MaxHeap
    /\ \E obj \in {TypeInt, TypeBool} : heap' = Append(heap, obj)
    /\ UNCHANGED <<typeVars, steps, result>>
    /\ UNCHANGED Untouched

\* new TypeArrow(p, r)
CallNewArrow ==
    /\ Len(heap) < MaxHeap
    /\ \E p \in Refs, r \in Refs : heap' = Append(heap, TypeArrow(p, r))
    /\ UNCHANGED <<typeVars, steps, result>>
    /\ UNCHANGED Untouched

\* new TypeList(e)
CallNewList ==
    /\ Len(heap) < MaxHeap
    /\ \E e \in Refs : heap' = Append(heap, TypeList(e))
    /\ UNCHANGED <<typeVars, steps, result>>
    /\ UNCHANGED Untouched

\* unify(a, b, trace, ctx, nodeId) with a trace that collects this call's events
UnifyOf(a, b) ==
    unify([heap |-> heap, typeVars |-> typeVars, recordedSteps |-> <<>>, thrown |-> Null, val |-> 0],
          a, b, "ctx", Null)
CallUnify(a, b) ==
    /\ \E U \in {UnifyOf(a, b)} :
          heap' = U.heap /\ steps' = U.recordedSteps /\ result' = U.thrown
    /\ UNCHANGED typeVars
    /\ UNCHANGED Untouched

\* prune(t)
CallPrune(t) ==
    /\ heap' = prune(heap, t).heap
    /\ steps' = <<>>
    /\ result' = Null
    /\ UNCHANGED typeVars
    /\ UNCHANGED Untouched

UnifyNext ==
    \/ CallNewTypeVar
    \/ CallNewAtom
    \/ CallNewArrow
    \/ CallNewList
    \/ \E a \in Refs, b \in Refs : CallUnify(a, b)
    \/ \E t \in Refs : CallPrune(t)

SpecUnify == UnifyInit /\ [][UnifyNext]_vars

-----------------------------------------------------------------------------
(* SpecArrows: a caller builds at most MaxTypes types and then calls unify  *)
(* once, on two arrows.                                                     *)

ArrowsInit ==
    /\ code = <<>>
    /\ steps = <<>>
    /\ currentStep = -1
    /\ error = Null
    /\ finalType = Null
    /\ astRoot = Null
    /\ typeVars = <<>>
    /\ heap = <<>>
    /\ tokens = <<>>
    /\ result = Null
    /\ pc = "build"
    /\ args = <<>>
    /\ logs = <<>>
    /\ typeVarCounter = 0

ArrowsUntouched == <<code, currentStep, error, finalType, astRoot, tokens, logs, typeVarCounter>>

\* newTypeVar()
BuildTypeVar ==
    /\ pc = "build" /\ Len(heap) < MaxTypes
    /\ \E n \in {newTypeVar(heap, typeVars)} : heap' = n.heap /\ typeVars' = n.typeVars
    /\ UNCHANGED <<steps, result, pc, args>>
    /\ UNCHANGED ArrowsUntouched

\* new TypeInt(), new TypeBool()
BuildAtom ==
    /\ pc = "build" /\ Len(heap) < MaxTypes
    /\ \E obj \in {TypeInt, TypeBool} : heap' = Append(heap, obj)
    /\ UNCHANGED <<typeVars, steps, result, pc, args>>
    /\ UNCHANGED ArrowsUntouched

\* new TypeArrow(p, r)
BuildArrow ==
    /\ pc = "build" /\ Len(heap) < MaxTypes
    /\ \E p \in Refs, r \in Refs : heap' = Append(heap, TypeArrow(p, r))
    /\ UNCHANGED <<typeVars, steps, result, pc, args>>
    /\ UNCHANGED ArrowsUntouched

\* new TypeList(e)
BuildList ==
    /\ pc = "build" /\ Len(heap) < MaxTypes
    /\ \E e \in Refs : heap' = Append(heap, TypeList(e))
    /\ UNCHANGED <<typeVars, steps, result, pc, args>>
    /\ UNCHANGED ArrowsUntouched

\* unify(a, b, trace, ctx, nodeId) on two arrows
UnifyArrows(a, b) ==
    /\ pc = "build"
    /\ InstanceOf(heap, a, "Arrow") /\ InstanceOf(heap, b, "Arrow")
    /\ \E U \in {UnifyOf(a, b)} :
          heap' = U.heap /\ steps' = U.recordedSteps /\ result' = U.thrown
    /\ args' = <<a, b>>
    /\ pc' = "unified"
    /\ UNCHANGED typeVars
    /\ UNCHANGED ArrowsUntouched

ArrowsNext ==
    \/ BuildTypeVar
    \/ BuildAtom
    \/ BuildArrow
    \/ BuildList
    \/ \E a \in Refs, b \in Refs : UnifyArrows(a, b)

SpecArrows == ArrowsInit /\ [][ArrowsNext]_vars

-----------------------------------------------------------------------------
(* SpecLex: tokenize applied to every short text over LexChars and to the   *)
(* identifiers of LexWords.                                                 *)

LexChars == {"i", "n", "f", "x", "1", " ", "=", "-", ">", "!"}
LexWords == {
    <<"i","n","p","u","t">>, <<"i","f","f","y">>, <<"l","e","t","t","e","r">>,
    <<"t","r","u","e","x">>, <<"l","e","t">>, <<"t","r","u","e">>, <<"f","a","l","s","e">>,
    <<"t","h","e","n">>, <<"e","l","s","e">>, <<"f","u","n">>, <<"x","_","1">> }
\* the sequences over S of length at most n
SeqsUpTo(S, n) == UNION {[1..k -> S] : k \in 0..n}

LexInit ==
    /\ code \in SeqsUpTo(LexChars, MaxChars) \cup LexWords
    /\ steps = <<>>
    /\ currentStep = -1
    /\ error = Null
    /\ finalType = Null
    /\ astRoot = Null
    /\ typeVars = <<>>
    /\ heap = <<>>
    /\ tokens = <<>>
    /\ result = Null
    /\ pc = "lex"
    /\ args = <<>>
    /\ logs = <<>>
    /\ typeVarCounter = 0

\* const tokens = tokenize(code)
CallTokenize ==
    /\ pc = "lex"
    /\ tokens' = tokenize(code)
    /\ pc' = "lexed"
    /\ UNCHANGED <<code, steps, currentStep, error, finalType, astRoot, typeVars, heap, result, args, logs, typeVarCounter>>

LexNext == CallTokenize

SpecLex == LexInit /\ [][LexNext]_vars

-----------------------------------------------------------------------------
(* SpecParse: new Parser(tokens).parseExpression() for every token sequence *)
(* of at most MaxTokens tokens of ParseTokens.                              *)

Tok(type, val) == [type |-> type, val |-> val]
ParseTokens == <<
    Tok("NUM", 1), Tok("BOOL", TRUE), Tok("ID", "x"),
    Tok("KW", "let"), Tok("KW", "in"), Tok("KW", "fun"), Tok("KW", "if"), Tok("KW", "then"),
    Tok("KW", "else"), Tok("ARROW", "->"), Tok("OP", "+"), Tok("OP", "="),
    Tok("PUNC", "("), Tok("PUNC", ")"), Tok("PUNC", "["), Tok("PUNC", "]"), Tok("PUNC", ",") >>

\* the binary operators the lexers produce; src/App.js has no ::
BinaryOps == {"+", "-", "*", "/", "==", "!=", "<", ">", "<=", ">=", "::"}
\* the tokens of `a op1 b op2 c ...`, each operand being width atoms side by side
ChainAtoms == <<Tok("ID", "f"), Tok("NUM", 1), Tok("ID", "x"), Tok("BOOL", TRUE)>>
ChainTokens(ops, width) ==
    [i \in 1..((Len(ops) + 1) * width + Len(ops)) |->
        IF i % (width + 1) = 0 THEN Tok("OP", ops[i \div (width + 1)])
        ELSE ChainAtoms[((i - 1) % Len(ChainAtoms)) + 1]]

ParseInit ==
    /\ code = <<>>
    /\ steps = <<>>
    /\ currentStep = -1
    /\ error = Null
    /\ finalType = Null
    /\ astRoot = Null
    /\ typeVars = <<>>
    /\ heap = <<>>
    /\ \/ \E ix \in SeqsUpTo(DOMAIN ParseTokens, MaxTokens) :
             tokens = [i \in DOMAIN ix |-> ParseTokens[ix[i]]]
       \/ \E n \in 1..MaxOps : \E ops \in [1..n -> BinaryOps], width \in 1..2 :
             tokens = ChainTokens(ops, width)
    /\ result = Null
    /\ pc = "parse"
    /\ args = <<>>
    /\ logs = <<>>
    /\ typeVarCounter = 0

\* const parser = new Parser(tokens); const ast = parser.parseExpression()
CallParse ==
    /\ pc = "parse"
    /\ result' = Some(parseExpression(tokens, NewParser))
    /\ pc' = "parsed"
    /\ UNCHANGED <<code, steps, currentStep, error, finalType, astRoot, typeVars, heap, tokens, args, logs, typeVarCounter>>

\* the same with the Parser of src/App.js, on tokens its lexer produces
AppJs_CallParse ==
    /\ pc = "parse"
    /\ \A i \in DOMAIN tokens :
          /\ tokens[i].type = "PUNC" => tokens[i].val \in {"(", ")"}
          /\ tokens[i].type = "OP" => tokens[i].val # "::"
    /\ result' = Some(AppJs_parseExpression(tokens, AppJs_NewParser))
    /\ pc' = "parsed by App.js"
    /\ UNCHANGED <<code, steps, currentStep, error, finalType, astRoot, typeVars, heap, tokens, args, logs, typeVarCounter>>

ParseNext == CallParse \/ AppJs_CallParse

SpecParse == ParseInit /\ [][ParseNext]_vars

-----------------------------------------------------------------------------
(* Properties of the App component (Spec) *)

\* C1: once a run has finished exactly one outcome is set: a final type
\* string and no error, or an error message and no final type.
C1_ExactlyOneOutcome ==
    currentStep >= 0 =>
        \/ (finalType # Null /\ finalType[1] # "" /\ error = Null)
        \/ (finalType = Null /\ error # Null /\ error[1] # "")
C1_Witness == currentStep >= 0 /\ error # Null /\ finalType = Null /\ Len(steps) > 1

\* what the view shows of the events: message, category and snapshot
Shown(st) == [i \in DOMAIN st |-> [msg |-> st[i].msg, type |-> st[i].type, memory |-> st[i].memory]]
\* the snapshots of st name the variables of registry tv, in order, and no others
SnapshotsOwn(st, h, tv) ==
    \A i \in DOMAIN st :
        /\ Len(st[i].memory) <= Len(tv)
        /\ \A j \in DOMAIN st[i].memory :
              st[i].memory[j].name = h[tv[j]].name /\ h[tv[j]].name = "T" \o ToString(j - 1)

\* C4: the outcome of a run (final type or error, and the messages, categories
\* and snapshots of its events) is that of a run of the same source text on an
\* empty registry, whatever ran before; its variables are named from T0 and its
\* snapshots list only the variables of this run.
C4_RunIsolated ==
    [][runAnalysis =>
        \E r \in {Analysis(code, <<>>, <<>>)} :
            /\ finalType' = r.finalType
            /\ error' = r.error
            /\ Shown(steps') = Shown(r.steps)
            /\ SnapshotsOwn(steps', heap', typeVars')
            /\ (steps' # <<>> /\ steps'[1].type = "ast" => steps'[1].memory = <<>>)]_vars
C4_Witness ==
    /\ currentStep >= 0
    /\ code = FunSelfApp
    /\ Len(typeVars) = 2
    /\ steps[Len(steps)].memory = <<[name |-> "T0", val |-> "?"], [name |-> "T1", val |-> "?"]>>

\* C5 as claimed: running `fun x -> x + 1` succeeds with final type `T0 -> Int`,
\* up to the name of the variable.
C5_VarArrowInt ==
    [][runAnalysis /\ code = FunXPlus1 =>
        /\ error' = Null
        /\ finalType' \in {Some("T" \o ToString(n) \o " -> Int") : n \in 0..9}]_vars
\* C5 as amended: running `fun x -> x + 1` succeeds with final type `Int -> Int`.
C5_IntArrowInt ==
    [][runAnalysis /\ code = FunXPlus1 => error' = Null /\ finalType' = Some("Int -> Int")]_vars
C5_Witness == code = FunXPlus1 /\ currentStep >= 0 /\ finalType = Some("Int -> Int")

\* the type a reference resolves to: the end of its instance chain
RECURSIVE Resolved(_, _)
Resolved(h, r) == IF InstanceOf(h, r, "Var") /\ h[r].instance # 0 THEN Resolved(h, h[r].instance) ELSE r
\* the string with parentheses around a parameter exactly when the parameter's
\* resolved type is an arrow, and never around the return side
RECURSIVE ParenString(_, _, _)
ParenString(h, r0, d) ==
    LET r == Resolved(h, r0)
    IN  IF d = 0 THEN RangeError
        ELSE IF r < 0 THEN NativeString(r)
        ELSE IF h[r].kind = "Arrow" THEN
            (IF InstanceOf(h, Resolved(h, h[r].param), "Arrow")
             THEN "(" \o ParenString(h, h[r].param, d - 1) \o ")"
             ELSE ParenString(h, h[r].param, d - 1))
            \o " -> " \o ParenString(h, h[r].ret, d - 1)
        ELSE IF h[r].kind = "List" THEN "[" \o ParenString(h, h[r].elemType, d - 1) \o "]"
        ELSE h[r].name

\* C6: the final type string of a successful run has parentheses around an
\* arrow's parameter exactly when the parameter's resolved type is an arrow.
C6_ParensIffArrowParam ==
    [][runAnalysis =>
        \E r \in {Analysis(code, <<>>, <<>>)} :
            r.finalType # Null => finalType' = Some(ParenString(heap', r.resultType, MaxStack))]_vars

\* a Var of e names something no enclosing Fun parameter or Let binding binds
RECURSIVE HasFree(_, _)
HasFree(e, bound) ==
    CASE e.tag = "EVar" -> e.name \notin bound
      [] e.tag = "EBinOp" -> HasFree(e.left, bound) \/ HasFree(e.right, bound)
      [] e.tag = "EIf" -> HasFree(e.cond, bound) \/ HasFree(e.thenBr, bound) \/ HasFree(e.elseBr, bound)
      [] e.tag = "EFun" -> HasFree(e.body, bound \cup {e.param})
      [] e.tag = "ELet" -> HasFree(e.val, bound) \/ HasFree(e.body, bound \cup {e.name})
      [] e.tag = "EApp" -> HasFree(e.func, bound) \/ HasFree(e.arg, bound)
      [] e.tag = "EList" -> HasFree(e.head, bound) \/ HasFree(e.tail, bound)
      [] OTHER -> FALSE

\* C7: a Var whose name nothing binds makes the run fail: with the
\* undefined-variable error when the program is that Var, and with an error
\* whenever the program contains such a Var.
C7_UndefinedVariableFails ==
    currentStep >= 0 /\ astRoot # Null =>
        /\ astRoot[1].tag = "EVar" =>
              error = Some("Variavel '" \o astRoot[1].name \o "' nao existe")
        /\ HasFree(astRoot[1], {}) => error # Null

\* C10 as claimed: every run, whatever error it ends in, sets astRoot to the
\* parsed tree and hands over the event list.
C10_AstAlways == currentStep >= 0 => astRoot # Null /\ steps # <<>>
\* C10 as amended: every run hands over a non-empty event list; astRoot is the
\* parsed tree for every run whose parse succeeds, also one that ends in an
\* error of the analysis, and null for a run whose parse fails.
C10_AstWhenParsed ==
    [][runAnalysis =>
        \E P \in {parseExpression(tokenize(code), NewParser)} :
            /\ steps' # <<>>
            /\ P.thrown = Null => astRoot' = P.val /\ astRoot' # Null
            /\ P.thrown # Null => astRoot' = Null /\ error' = Some(P.thrown[1].message)]_vars
C10_Witness == currentStep >= 0 /\ error # Null /\ astRoot # Null /\ astRoot[1].tag = "EBinOp"

-----------------------------------------------------------------------------
(* Properties of unify and prune (SpecUnify) *)

\* the references an object holds
Held(h, r) == IF r <= 0 THEN {} ELSE {h[r].instance, h[r].param, h[r].ret, h[r].elemType} \ {0}
\* the objects reachable from those of S, S included
RECURSIVE Closure(_, _)
Closure(h, S) ==
    LET T == S \cup UNION {Held(h, r) : r \in S}
    IN  IF T = S THEN S ELSE Closure(h, T)
\* no type variable is reachable from its own instance
Acyclic(h) ==
    \A v \in 1..Len(h) : h[v].kind = "Var" /\ h[v].instance # 0 => v \notin Closure(h, {h[v].instance})
\* unify(a, b) would have to bind the unbound variable v to the different type t that contains it
BindsIntoItself(h, a, b, v, t) ==
    /\ Resolved(h, a) # Resolved(h, b)
    /\ \/ v = Resolved(h, a) /\ t = Resolved(h, b)
       \/ ~InstanceOf(h, Resolved(h, a), "Var") /\ v = Resolved(h, b) /\ t = Resolved(h, a)
    /\ InstanceOf(h, v, "Var")
    /\ v \in Closure(h, {t})
OccursMessage(h, v, t) ==
    "Occurs Check: Ciclo infinito (" \o toString(h, v) \o " em " \o toString(h, t) \o ")"

\* C2: after every call no type variable is reachable from its own instance,
\* and a unify that would bind an unbound variable to a different type that
\* contains it throws the occurs-check error and leaves the variable unbound.
C2_OccursCheck ==
    [][/\ Acyclic(heap')
       /\ \A a \in Refs, b \in Refs : CallUnify(a, b) =>
             \A v \in Refs, t \in Refs : BindsIntoItself(heap, a, b, v, t) =>
                 /\ result' = Some([name |-> "Error", message |-> OccursMessage(heap', v, t)])
                 /\ heap'[v].instance = 0
                 /\ steps' = <<>>]_vars
C2_Witness ==
    /\ pc = "unify"
    /\ result = Some([name |-> "Error", message |-> "Occurs Check: Ciclo infinito (T0 em [T0])"])
    /\ \E v \in Refs : heap[v].kind = "Var" /\ heap[v].instance = 0

\* the events of unify's binding step
Bindings(st) == {i \in DOMAIN st : st[i].type = "success"}
\* C3: an instance that is set never becomes empty again, and every binding
\* step of a unify call writes an instance that was empty: the call has as
\* many binding events as variables whose instance went from empty to set.
C3_SingleAssignment ==
    [][/\ \A r \in Refs : heap[r].kind = "Var" /\ heap[r].instance # 0 => heap'[r].instance # 0
       /\ \A a \in Refs, b \in Refs : CallUnify(a, b) =>
             Cardinality(Bindings(steps')) =
                 Cardinality({r \in Refs : heap[r].kind = "Var" /\ heap[r].instance = 0
                                           /\ heap'[r].instance # 0})]_vars
\* a unify on a variable that was already bound has bound the end of its chain
C3_Witness ==
    /\ pc = "unify"
    /\ Bindings(steps) # {}
    /\ Cardinality({r \in Refs : heap[r].kind = "Var" /\ heap[r].instance # 0}) = 2

-----------------------------------------------------------------------------
(* Properties of the parser (SpecParse) *)

SyntaxMessages(toks) ==
    {"Erro Sintatico: Esperado " \o x \o ", achou " \o y :
        x \in {ValString(Some(ParseTokens[i])) : i \in DOMAIN ParseTokens}
              \cup {ParseTokens[i].type : i \in DOMAIN ParseTokens},
        y \in {ValString(Some(toks[i])) : i \in DOMAIN toks} \cup {"undefined"}}

\* C8: whatever the parser throws is a syntax error that carries the expected
\* token or kind and the token found (undefined at the end of input).
C8_OnlySyntaxErrors ==
    pc = "parsed" /\ result[1].thrown # Null =>
        /\ result[1].thrown[1].name = "Error"
        /\ result[1].thrown[1].message \in SyntaxMessages(tokens)

-----------------------------------------------------------------------------
(* Properties of the lexer (SpecLex) *)

\* the match at i when an identifier run is classified as a whole
WholeRunMatch(input, i) ==
    IF IsIdStart(input[i])
    THEN LET j == RunEnd(input, i, "w")
             w == Text(input, i, j)
         IN  [tok |-> Some(IF w \in {"true", "false"} THEN [type |-> "BOOL", val |-> (w = "true")]
                           ELSE IF w \in {"let", "in", "if", "then", "else", "fun"}
                           THEN [type |-> "KW", val |-> w]
                           ELSE [type |-> "ID", val |-> w]),
              next |-> j]
    ELSE NextMatch(input, i)
RECURSIVE WholeRunTokens(_, _)
WholeRunTokens(input, i) ==
    IF i > Len(input) THEN <<>>
    ELSE Let(WholeRunMatch(input, i), LAMBDA m : m.tok \o WholeRunTokens(input, m.next))
SameTokens(a, b) ==
    /\ Len(a) = Len(b)
    /\ \A i \in DOMAIN a : a[i].type = b[i].type /\ a[i].val = b[i].val

\* C9: a maximal identifier run becomes a KW token only when the whole run is
\* a keyword, a BOOL token only when the whole run is true or false, and
\* otherwise a single ID token.
C9_WholeRunClassified == pc = "lexed" => SameTokens(tokens, WholeRunTokens(code, 1))

-----------------------------------------------------------------------------
(* Properties of the analyzer's BinOp rule, in both components *)

Arithmetic == {"+", "-", "*", "/"}
\* the rule as stated: Int operands and an Int result for an arithmetic
\* operator, operands of one type and a Bool result for every other operator
StatedBinOp(S, op, L, R) ==
    IF op \in Arithmetic
    THEN Let(Alloc(S, TypeInt), LAMBDA I1 :
         Then(unify(I1, L, I1.val, "", Null), LAMBDA U1 :
         Let(Alloc(U1, TypeInt), LAMBDA I2 :
         Then(unify(I2, R, I2.val, "", Null), LAMBDA U2 :
         Alloc(U2, TypeInt)))))
    ELSE Then(unify(S, L, R, "", Null), LAMBDA U : Alloc(U, TypeBool))
\* what a run shows: the final type string or the error message
Outcome(X) ==
    IF X.thrown # Null THEN [type |-> Null, error |-> Some(X.thrown[1].message)]
    ELSE [type |-> Some(toString(X.heap, X.val)), error |-> Null]
StatedOutcome(e) ==
    Outcome(Then(analyze([heap |-> <<>>, typeVars |-> <<>>, recordedSteps |-> <<>>,
                          thrown |-> Null, val |-> 0], EmptyEnv, e.left), LAMBDA L :
            Then(analyze(L, EmptyEnv, e.right), LAMBDA R :
            StatedBinOp(R, e.op, L.val, R.val))))

\* In src/unnamed/part_000 a run on a BinOp shows what the stated rule gives
\* for the types of its operands, and never the error Desconhecido.
BinOpRules_part_000 ==
    [][runAnalysis /\ astRoot' # Null /\ astRoot'[1].tag = "EBinOp" =>
          \E o \in {StatedOutcome(astRoot'[1])} :
              /\ finalType' = o.type
              /\ error' = o.error
              /\ error' # Some("Desconhecido")]_vars

AppJs_StatedBinOp(S, op, L, R) ==
    IF op \in Arithmetic
    THEN Let(Alloc(S, TypeInt), LAMBDA I1 :
         Then(AppJs_unify(I1, L, I1.val, ""), LAMBDA U1 :
         Let(Alloc(U1, TypeInt), LAMBDA I2 :
         Then(AppJs_unify(I2, R, I2.val, ""), LAMBDA U2 :
         Alloc(U2, TypeInt)))))
    ELSE Then(AppJs_unify(S, L, R, ""), LAMBDA U : Alloc(U, TypeBool))
AppJs_StatedOutcome(e) ==
    Outcome(Then(AppJs_analyze([heap |-> <<>>, typeVarCounter |-> 0, localLogs |-> <<>>,
                                thrown |-> Null, val |-> 0], EmptyEnv, e.left), LAMBDA L :
            Then(AppJs_analyze(L, EmptyEnv, e.right), LAMBDA R :
            AppJs_StatedBinOp(R, e.op, L.val, R.val))))

\* C11: a run on a BinOp shows what the rule gives for the types of its
\* operands (each operand unified with Int and the result Int for + - * /,
\* the operands unified with each other and the result Bool for every other
\* operator the lexer produces), and never the unknown-expression error.
\* Stated here for src/App.js.
C11_BinOpRules ==
    [][AppJs_runInference =>
          \E P \in {AppJs_parseExpression(AppJs_tokenize(code), AppJs_NewParser)} :
              (P.thrown = Null /\ P.val[1].tag = "EBinOp") =>
                  \E o \in {AppJs_StatedOutcome(P.val[1])} :
                      /\ result' = o.type
                      /\ error' = o.error
                      /\ error' # Some("Expressao Desconhecida")]_vars

-----------------------------------------------------------------------------
(* Properties of the trace of a run (Spec) *)

\* the uids of the nodes of a tree in pre-order
RECURSIVE PreOrder(_)
RECURSIVE PreOrderAll(_)
PreOrder(e) == <<e.uid>> \o PreOrderAll(children(e))
PreOrderAll(es) == IF es = <<>> THEN <<>> ELSE PreOrder(Head(es)) \o PreOrderAll(Tail(es))
\* the node ids of the ast events of a trace, in order
AstIds(st) == SelectSeq([i \in DOMAIN st |-> IF st[i].type = "ast" THEN st[i].nodeId ELSE Null],
                        LAMBDA n : n # Null)
IsPrefix(a, b) == Len(a) <= Len(b) /\ \A i \in DOMAIN a : a[i] = b[i]

\* C12: the ast events of a run carry the uids of the tree's nodes in
\* pre-order, each once: all of them when the run succeeds, the nodes visited
\* before the failure otherwise; and every event that names a node comes
\* after that node's ast event.
C12_AstEventsPreOrder ==
    currentStep >= 0 /\ astRoot # Null =>
        /\ IsPrefix(AstIds(steps), [i \in DOMAIN PreOrder(astRoot[1]) |-> Some(PreOrder(astRoot[1])[i])])
        /\ error = Null => Len(AstIds(steps)) = Len(PreOrder(astRoot[1]))
        /\ \A i \in DOMAIN steps : steps[i].nodeId # Null =>
               \E j \in 1..i : steps[j].type = "ast" /\ steps[j].nodeId = steps[i].nodeId
C12_Witness ==
    /\ currentStep >= 0 /\ astRoot # Null /\ error = Null
    /\ Len(PreOrder(astRoot[1])) >= 5
    /\ \E i \in DOMAIN steps : steps[i].type = "success"

-----------------------------------------------------------------------------
(* More properties of unify and prune (SpecUnify) *)

\* the kind of what a unify call threw, told by the message it built
ErrorKind(h, thrown) ==
    IF thrown = Null THEN "none"
    ELSE IF \E v \in 1..Len(h), t \in 1..Len(h) : thrown[1].message = OccursMessage(h, v, t)
    THEN "occurs"
    ELSE IF \E x \in 1..Len(h), y \in 1..Len(h) :
               thrown[1].message = "Incompativel: " \o toString(h, x) \o " vs " \o toString(h, y)
    THEN "mismatch"
    ELSE "other"
\* r1 under the bindings h1 and r2 under h2 resolve to the same type, two
\* unbound variables being the same when each heap resolves one to the other
RECURSIVE SameType(_, _, _, _, _)
SameType(h1, r1, h2, r2, d) ==
    LET a == Resolved(h1, r1)
        b == Resolved(h2, r2)
    IN  /\ d > 0
        /\ h1[a].kind = h2[b].kind
        /\ CASE h1[a].kind = "Var" -> Resolved(h2, a) = b /\ Resolved(h1, b) = a
             [] h1[a].kind = "Arrow" -> /\ SameType(h1, h1[a].param, h2, h2[b].param, d - 1)
                                        /\ SameType(h1, h1[a].ret, h2, h2[b].ret, d - 1)
             [] h1[a].kind = "List" -> SameType(h1, h1[a].elemType, h2, h2[b].elemType, d - 1)
             [] OTHER -> TRUE

\* C13: in every binding state, for all types a and b, unify(a, b) and
\* unify(b, a) both succeed or both throw the same kind of error, and when
\* they succeed every type resolves to the same type under both, up to which
\* of two unbound variables stands for the other.
C13_UnifySymmetric ==
    \A a \in Refs, b \in Refs : a < b =>
        \E X \in {UnifyOf(a, b)}, Y \in {UnifyOf(b, a)} :
            /\ ErrorKind(X.heap, X.thrown) = ErrorKind(Y.heap, Y.thrown)
            /\ ErrorKind(X.heap, X.thrown) # "other"
            /\ X.thrown = Null => \A r \in Refs : SameType(X.heap, r, Y.heap, r, MaxStack)
\* a unify that bound one of two unbound variables to the other
C13_Witness ==
    /\ pc = "unify"
    /\ result = Null
    /\ Bindings(steps) # {}
    /\ \E v \in Refs : /\ heap[v].kind = "Var" /\ heap[v].instance # 0
                       /\ heap[heap[v].instance].kind = "Var"

-----------------------------------------------------------------------------
(* More properties of the parsers (SpecParse) *)

IsAtomToken(t) == t.type \in {"NUM", "BOOL", "ID"}
IsBinaryOpToken(t) == t.type = "OP" /\ t.val # "="
\* operands of atoms side by side, separated by single binary operators
IsChain(toks) ==
    /\ toks # <<>>
    /\ \A i \in DOMAIN toks : IsAtomToken(toks[i]) \/ IsBinaryOpToken(toks[i])
    /\ IsAtomToken(toks[1]) /\ IsAtomToken(toks[Len(toks)])
    /\ \A i \in 1..(Len(toks) - 1) : ~(IsBinaryOpToken(toks[i]) /\ IsBinaryOpToken(toks[i + 1]))
\* a tree without its uids
RECURSIVE Shape(_)
Shape(e) ==
    CASE e.tag = "EInt" -> <<"EInt", ToString(e.val)>>
      [] e.tag = "EBool" -> <<"EBool", IF e.val THEN "true" ELSE "false">>
      [] e.tag = "EVar" -> <<"EVar", e.name>>
      [] e.tag = "EBinOp" -> <<"EBinOp", e.op, Shape(e.left), Shape(e.right)>>
      [] e.tag = "EApp" -> <<"EApp", Shape(e.func), Shape(e.arg)>>
      [] OTHER -> <<e.tag>>
AtomShape(t) ==
    IF t.type = "NUM" THEN <<"EInt", ToString(t.val)>>
    ELSE IF t.type = "BOOL" THEN <<"EBool", IF t.val THEN "true" ELSE "false">>
    ELSE <<"EVar", t.val>>
\* end (exclusive) of the operand that starts at i
RECURSIVE OperandEnd(_, _)
OperandEnd(toks, i) == IF i <= Len(toks) /\ IsAtomToken(toks[i]) THEN OperandEnd(toks, i + 1) ELSE i
\* the atoms toks[i..j-1] applied left to right
RECURSIVE OperandShape(_, _, _)
OperandShape(toks, i, j) ==
    IF j - 1 = i THEN AtomShape(toks[i])
    ELSE <<"EApp", OperandShape(toks, i, j - 1), AtomShape(toks[j - 1])>>
\* the chain from i on, nested to the right whatever the operators
RECURSIVE RightNested(_, _)
RightNested(toks, i) ==
    LET j == OperandEnd(toks, i)
    IN  IF j > Len(toks) THEN OperandShape(toks, i, j)
        ELSE <<"EBinOp", toks[j].val, OperandShape(toks, i, j), RightNested(toks, j + 1)>>

\* C14: both parsers read a chain of operands and binary operators as one
\* precedence level nested to the right, BinOp(op1, a, BinOp(op2, b, c)),
\* whatever the operators, each operand being the application of its atoms.
C14_RightAssociative ==
    pc \in {"parsed", "parsed by App.js"} /\ IsChain(tokens) =>
        /\ result[1].thrown = Null
        /\ result[1].pos = Len(tokens)
        /\ Shape(result[1].val[1]) = RightNested(tokens, 1)
C14_Witness ==
    /\ pc = "parsed" /\ IsChain(tokens) /\ Len(tokens) = 8
    /\ tokens[3].val = "-" /\ tokens[6].val = "*"
    /\ result[1].thrown = Null /\ result[1].val[1].right.tag = "EBinOp"

-----------------------------------------------------------------------------
(* More properties of the trace of a run (Spec) *)

\* the events the analyzer emits on a source until it returns or throws
EmittedBy(src) ==
    Let(parseExpression(tokenize(src), NewParser), LAMBDA P :
    IF P.thrown # Null THEN <<>>
    ELSE analyze([heap |-> <<>>, typeVars |-> <<>>, recordedSteps |-> <<>>, thrown |-> Null,
                  val |-> 0], EmptyEnv, P.val[1]).recordedSteps)

\* C15: the trace of a failed run is the events emitted before the failure,
\* in order and unaltered, followed by one error event carrying the error
\* message; the trace of a successful run is the events emitted and holds no
\* error event.
C15_TraceUpToFailure ==
    [][runAnalysis =>
          \E before \in {EmittedBy(code)} :
              /\ \A i \in DOMAIN before : before[i].type # "error"
              /\ error' = Null => steps' = before
              /\ error' # Null =>
                    /\ Len(steps') = Len(before) + 1
                    /\ SubSeq(steps', 1, Len(before)) = before
                    /\ steps'[Len(steps')].type = "error"
                    /\ steps'[Len(steps')].msg = "FALHA: " \o error'[1]
                    /\ steps'[Len(steps')].nodeId = Null]_vars
C15_Witness ==
    /\ currentStep >= 0 /\ error # Null
    /\ Len(steps) >= 4
    /\ \E i \in DOMAIN steps : steps[i].type = "success"
    /\ steps[Len(steps)].type = "error"

\* the snapshot of event i of a trace, empty before the first event
MemoryAt(st, i) == IF i = 0 THEN <<>> ELSE st[i].memory
\* the variables a snapshot shows as bound
ShownBound(mem) == {n \in DOMAIN mem : mem[n].val # "?"}

\* C16: the snapshot of every event lists the variables allocated so far as
\* T0, T1, ... in allocation order; from one event to the next the list only
\* grows, a variable shown bound stays bound, and the variables that turn from
\* ? (or from not yet allocated) to bound are exactly the one a binding event
\* reports and none for any other event; the last snapshot shows ? exactly for
\* the variables whose instance is empty when the run ends.
C16_SnapshotAtEmission ==
    [][runAnalysis =>
          /\ \A i \in DOMAIN steps' :
                /\ Len(steps'[i].memory) <= Len(typeVars')
                /\ \A n \in DOMAIN steps'[i].memory :
                       steps'[i].memory[n].name = "T" \o ToString(n - 1)
                /\ Len(MemoryAt(steps', i - 1)) <= Len(steps'[i].memory)
                /\ ShownBound(MemoryAt(steps', i - 1)) \subseteq ShownBound(steps'[i].memory)
                /\ Cardinality(ShownBound(steps'[i].memory) \ ShownBound(MemoryAt(steps', i - 1)))
                       = (IF steps'[i].type = "success" THEN 1 ELSE 0)
          /\ \A n \in DOMAIN steps'[Len(steps')].memory :
                (steps'[Len(steps')].memory[n].val = "?") <=> (heap'[typeVars'[n]].instance = 0)]_vars
C16_Witness ==
    /\ currentStep >= 0
    /\ \E i \in DOMAIN steps, j \in DOMAIN steps, n \in 1..Len(typeVars) :
          /\ i < j /\ n \in DOMAIN steps[i].memory
          /\ steps[i].memory[n].val = "?" /\ steps[j].memory[n].val # "?"
          /\ Len(steps[j].memory) >= 2 /\ Len(steps[i].memory) < Len(steps[j].memory)

-----------------------------------------------------------------------------
(* Arrow against arrow: parameters first                                    *)

TwoArrows(a, b) == a # b /\ InstanceOf(heap, a, "Arrow") /\ InstanceOf(heap, b, "Arrow")
\* the unification of the two parameters alone, by a caller with an empty trace
ParamsOf(a, b) ==
    unify([heap |-> heap, typeVars |-> typeVars, recordedSteps |-> <<>>, thrown |-> Null, val |-> 0],
          heap[a].param, heap[b].param, "Param Funcao", Null)
\* the message that names the two parameter types
NamesParams(a, b) ==
    "Incompativel: " \o toString(heap, heap[a].param) \o " vs " \o toString(heap, heap[b].param)
\* both parameters resolve to constructed types of different constructors
DirectlyIncompatible(a, b) ==
    LET p == Resolved(heap, heap[a].param)
        q == Resolved(heap, heap[b].param)
    IN  heap[p].kind # "Var" /\ heap[q].kind # "Var" /\ heap[p].kind # heap[q].kind

\* C17 as stated: whenever the parameters of two arrows do not unify because
\* of a mismatch, unify of the two arrows throws the error that names the two
\* parameter types.
C17_ParameterMismatchNamed ==
    \A a \in Refs, b \in Refs : TwoArrows(a, b) =>
        \E P \in {ParamsOf(a, b)}, U \in {UnifyOf(a, b)} :
            ErrorKind(P.heap, P.thrown) = "mismatch" =>
                U.thrown # Null /\ U.thrown[1].message = NamesParams(a, b)

\* C17 amended: unify of two arrows unifies the parameters first (its events
\* start with those of the parameters); when the parameters do not unify it
\* throws the error of the parameters, with their bindings and events and
\* nothing of the returns, whether or not the returns would unify; that error
\* names the two parameter types when they are directly incompatible.
C17_ParametersFirst ==
    \A a \in Refs, b \in Refs : TwoArrows(a, b) =>
        \E P \in {ParamsOf(a, b)}, U \in {UnifyOf(a, b)} :
            /\ IsPrefix(P.recordedSteps, U.recordedSteps)
            /\ P.thrown # Null =>
                  /\ U.thrown = P.thrown
                  /\ U.heap = P.heap
                  /\ U.recordedSteps = P.recordedSteps
            /\ DirectlyIncompatible(a, b) =>
                  U.thrown # Null /\ U.thrown[1].message = NamesParams(a, b)
\* unify has thrown on two arrows with the same return whose parameters are
\* arrows that do not unify, and the error names types inside the parameters
C17_Witness ==
    /\ pc = "unified"
    /\ result # Null
    /\ heap[args[1]].ret = heap[args[2]].ret
    /\ InstanceOf(heap, heap[args[1]].param, "Arrow")
    /\ InstanceOf(heap, heap[args[2]].param, "Arrow")
    /\ result[1].message = "Incompativel: Int vs Int -> Int"
-----------------------------------------------------------------------------
(* prune: idempotent, and invisible to resolved strings                     *)

\* the resolved strings the registry shows
ResolvedStrings(h) == snapshotTypes(h, typeVars).val
\* the heaps prune can be called on: the heap between calls and, since every
\* snapshot compresses the registry, the heap inside a bind between the write
\* of the instance and the snapshot, for every bind unify can make here
BindHeaps ==
    {heap} \cup
    {[heap EXCEPT ![v].instance = b] :
        <<v, b>> \in {x \in Refs \X Refs :
                        /\ InstanceOf(heap, x[1], "Var") /\ heap[x[1]].instance = 0
                        /\ Resolved(heap, x[2]) = x[2]
                        /\ x[1] # x[2]
                        /\ ~occursIn(heap, x[1], x[2]).val}}
\* prune(t) on the heap h is idempotent and changes no string
PruneQuiet(h, t) ==
    \E P \in {prune(h, t)} :
        /\ prune(P.heap, P.val).val = P.val
        /\ prune(P.heap, P.val).heap = P.heap
        /\ prune(P.heap, t) = P
        /\ \A r \in Refs : toString(P.heap, r) = toString(h, r)
        /\ ResolvedStrings(P.heap) = ResolvedStrings(h)

\* C18: wherever prune can be called and for every type t, prune(prune(t))
\* is the object prune(t), a second prune(t) returns it again and writes
\* nothing, and the call prune(t) changes the string of no type and the
\* resolved string of no registry variable.
C18_PruneIdempotentInvisible ==
    \A h \in BindHeaps : \A t \in Refs : PruneQuiet(h, t)
\* a bind has left a variable bound to a bound variable, and prune of it
\* rewrites its instance
C18_Witness ==
    \E h \in BindHeaps, t \in Refs :
        /\ prune(h, t).heap # h
        /\ InstanceOf(h, t, "Var")
        /\ InstanceOf(h, h[t].instance, "Var")
        /\ h[h[t].instance].instance # 0
-----------------------------------------------------------------------------
(* Environments: lexical scoping with shadowing                             *)

\* The expression e with every binder given a name of its own, "#" and the
\* uid of the binding node, and every variable that lexical scoping resolves
\* to a binder given the name of that binder; ren maps the names bound at e
\* to the new names. A name no lexer produces cannot capture a free variable.
\* the renaming ren with name sent to new, whatever ren did with it
Rebind(ren, name, new) == [n \in DOMAIN ren \cup {name} |-> IF n = name THEN new ELSE ren[n]]
RECURSIVE Alpha(_, _)
Alpha(e, ren) ==
    CASE e.tag = "EVar" -> [e EXCEPT !.name = IF @ \in DOMAIN ren THEN ren[@] ELSE @]
      [] e.tag = "EFun" ->
            [e EXCEPT !.param = "#" \o ToString(e.uid),
                      !.body = Alpha(@, Rebind(ren, e.param, "#" \o ToString(e.uid)))]
      [] e.tag = "ELet" ->
            [e EXCEPT !.name = "#" \o ToString(e.uid),
                      !.val = Alpha(@, ren),
                      !.body = Alpha(@, Rebind(ren, e.name, "#" \o ToString(e.uid)))]
      [] e.tag = "EBinOp" -> [e EXCEPT !.left = Alpha(@, ren), !.right = Alpha(@, ren)]
      [] e.tag = "EIf" ->
            [e EXCEPT !.cond = Alpha(@, ren), !.thenBr = Alpha(@, ren), !.elseBr = Alpha(@, ren)]
      [] e.tag = "EApp" -> [e EXCEPT !.func = Alpha(@, ren), !.arg = Alpha(@, ren)]
      [] e.tag = "EList" -> [e EXCEPT !.head = Alpha(@, ren), !.tail = Alpha(@, ren)]
      [] OTHER -> e
\* analyze of e by a caller with empty registry, heap, trace and environment
Alone(e) ==
    analyze([heap |-> <<>>, typeVars |-> <<>>, recordedSteps |-> <<>>, thrown |-> Null, val |-> 0],
            EmptyEnv, e)

\* C19: the run of an expression shows what the run of the same expression
\* with every binder renamed apart shows: the same type or error, and event
\* by event the same kind, node and snapshot. So a binding reaches the
\* variables of its body that no inner binder of the name captures, and no
\* variable outside the body.
C19_LexicalScoping ==
    astRoot # Null =>
        \E A \in {Alone(Alpha(astRoot[1], EmptyEnv))} :
            /\ finalType = Outcome(A).type
            /\ error = Outcome(A).error
            /\ Len(steps) = Len(A.recordedSteps) + (IF A.thrown # Null THEN 1 ELSE 0)
            /\ \A i \in DOMAIN A.recordedSteps :
                  /\ steps[i].type = A.recordedSteps[i].type
                  /\ steps[i].nodeId = A.recordedSteps[i].nodeId
                  /\ steps[i].memory = A.recordedSteps[i].memory
\* the run of fun x -> fun x -> x: the inner x is the one the body sees
C19_Witness ==
    /\ astRoot # Null
    /\ astRoot[1].tag = "EFun"
    /\ astRoot[1].body.tag = "EFun"
    /\ astRoot[1].body.param = astRoot[1].param
    /\ astRoot[1].body.body.tag = "EVar"
    /\ astRoot[1].body.body.name = astRoot[1].param
    /\ finalType = Some("T0 -> T1 -> T1")
\* the run of (fun x -> x) x: the x outside the body has no binding
C19_WitnessOutside ==
    /\ astRoot # Null
    /\ astRoot[1].tag = "EApp"
    /\ astRoot[1].func.tag = "EFun"
    /\ astRoot[1].arg.tag = "EVar"
    /\ astRoot[1].arg.name = astRoot[1].func.param
    /\ error = Some("Variavel 'x' nao existe")
-----------------------------------------------------------------------------
(* unify is not atomic                                                      *)

\* the variables bound in the heap h
BoundIn(h) == {v \in 1..Len(h) : h[v].kind = "Var" /\ h[v].instance # 0}
\* the event the catch block of runAnalysis records for the failure X
FinalErrorEvent(X) ==
    Let(Caught(X, X.thrown[1], Null), LAMBDA C : C.steps[Len(C.steps)])

\* C20: whenever unify of two arrows throws in the returns after the
\* parameters have unified, every variable the parameters bound is still
\* bound and resolves to what it was bound to, their success events are the
\* first events of the trace, and the snapshot of the error event the catch
\* block records shows every such variable with the type it was bound to.
C20_NoRollback ==
    \A a \in Refs, b \in Refs : TwoArrows(a, b) =>
        \E P \in {ParamsOf(a, b)}, U \in {UnifyOf(a, b)} :
            (P.thrown = Null /\ U.thrown # Null) =>
                /\ BoundIn(P.heap) \subseteq BoundIn(U.heap)
                /\ \A v \in BoundIn(P.heap) :
                      Resolved(U.heap, v) = Resolved(U.heap, Resolved(P.heap, v))
                /\ IsPrefix(P.recordedSteps, U.recordedSteps)
                /\ \E F \in {FinalErrorEvent(U)} :
                      /\ F.type = "error"
                      /\ \A i \in DOMAIN typeVars :
                            typeVars[i] \in BoundIn(P.heap) =>
                                F.memory[i].val = toString(U.heap, Resolved(P.heap, typeVars[i]))
\* unify has thrown on two arrows after binding a variable while unifying
\* their parameters: the variable is bound, its success event is recorded
C20_Witness ==
    /\ pc = "unified"
    /\ result # Null
    /\ Len(steps) = 1
    /\ steps[1].type = "success"
    /\ steps[1].msg = "UNIFICAR: T0 <- Int (Param Funcao)"
    /\ steps[1].memory[1].val = "Int"
    /\ typeVars[1] \in BoundIn(heap)
-----------------------------------------------------------------------------
(* The step cursor                                                          *)

\* no run has happened: the cursor is -1 and there is no step
NoRunYet == currentStep = -1 /\ steps = <<>>
\* the cursor points at a step
CursorAtStep == steps # <<>> /\ 0 <= currentStep /\ currentStep <= Len(steps) - 1

\* C21: in every state reachable through the controls, either no run has
\* happened yet (currentStep is -1 and the step list is empty) or the step
\* list is non-empty and 0 <= currentStep <= steps.length - 1; and every run
\* leaves a non-empty step list with currentStep at 0.
C21_CursorInRange ==
    /\ [](NoRunYet \/ CursorAtStep)
    /\ [][runAnalysis => (currentStep' = 0 /\ steps' # <<>>)]_vars
\* the cursor has been stepped to the last of several steps
C21_Witness ==
    /\ Len(steps) >= 2
    /\ currentStep = Len(steps) - 1
    /\ currentStep > 0
-----------------------------------------------------------------------------
(* Tokens the parser leaves unread                                          *)

\* the parser returns an expression for src and has not read every token
Leftover(src) ==
    \E toks \in {tokenize(src)} : \E P \in {parseExpression(toks, NewParser)} :
        P.thrown = Null /\ P.pos < Len(toks)
\* the first n characters of src are the text of the tokens the parser read
ReadText(src, n) ==
    \E toks \in {tokenize(src)} : \E P \in {parseExpression(toks, NewParser)} :
        SameTokens(tokenize(SubSeq(src, 1, n)), SubSeq(toks, 1, P.pos))

\* C22 as stated: a run whose parser returns an expression without having
\* read every token does not fail and reports a type.
C22_LeftoverRunSucceeds ==
    [][runAnalysis /\ Leftover(code) => error' = Null /\ finalType' # Null]_vars

\* C22 amended: a run whose parser returns an expression without having read
\* every token hands over what a run on the text of the tokens read hands
\* over, where the parser reads everything: the same AST, the same events and
\* nothing more, and the same type or inference error.
C22_LeftoverIgnored ==
    [][runAnalysis /\ Leftover(code) =>
          /\ \E n \in 0..Len(code) : ReadText(code, n)
          /\ \A n \in 0..Len(code) : ReadText(code, n) =>
                /\ ~Leftover(SubSeq(code, 1, n))
                /\ \E r \in {Analysis(SubSeq(code, 1, n), <<>>, <<>>)} :
                      /\ astRoot' = r.astRoot
                      /\ steps' = r.steps
                      /\ finalType' = r.finalType
                      /\ error' = r.error
                      /\ heap' = r.heap
                      /\ typeVars' = r.typeVars
          /\ astRoot' # Null
          /\ (error' = Null) # (finalType' = Null)]_vars
\* the run of 1 = 2 has reported the type of 1, the tokens = 2 unread
C22_Witness ==
    /\ code = <<"1", " ", "=", " ", "2">>
    /\ Leftover(code)
    /\ astRoot # Null
    /\ astRoot[1].tag = "EInt"
    /\ finalType = Some("Int")
    /\ error = Null
    /\ Len(steps) = 1

\* the same for src/src/App.js
AppJs_Leftover(src) ==
    \E toks \in {AppJs_tokenize(src)} : \E P \in {AppJs_parseExpression(toks, AppJs_NewParser)} :
        P.thrown = Null /\ P.pos < Len(toks)
AppJs_ReadText(src, n) ==
    \E toks \in {AppJs_tokenize(src)} : \E P \in {AppJs_parseExpression(toks, AppJs_NewParser)} :
        SameTokens(AppJs_tokenize(SubSeq(src, 1, n)), SubSeq(toks, 1, P.pos))
\* the messages and kinds of a log, in order
Lines(l) == [i \in DOMAIN l |-> <<l[i].msg, l[i].type>>]
\* In src/src/App.js a run whose parser leaves tokens unread shows what a run
\* on the text of the tokens read shows, the same result or error and the
\* same log, with one more event, the warning, after the second.
LeftoverWarned_AppJs ==
    [][AppJs_runInference /\ AppJs_Leftover(code) =>
          /\ \E n \in 0..Len(code) : AppJs_ReadText(code, n)
          /\ \A n \in 0..Len(code) : AppJs_ReadText(code, n) =>
                /\ ~AppJs_Leftover(SubSeq(code, 1, n))
                /\ \E r \in {AppJs_Inference(SubSeq(code, 1, n))} :
                      /\ result' = r.result
                      /\ error' = r.error
                      /\ Lines(logs') =
                            SubSeq(Lines(r.logs), 1, 2)
                                \o <<<<"Aviso: Tokens sobrando apos analise.", "warn">>>>
                                \o SubSeq(Lines(r.logs), 3, Len(r.logs))
          /\ (error' = Null) # (result' = Null)]_vars
\* an App.js run that left tokens unread has logged the warning as its third event
LeftoverWarned_AppJs_Witness ==
    /\ pc = "appjs"
    /\ AppJs_Leftover(code)
    /\ Len(logs) >= 3
    /\ logs[3].type = "warn"
=============================================================================
